---- MODULE Spec2Model ----
(***************************************************************************)
(* Pagination engine of fastapi-auth: the cursor paginator                 *)
(* (base/utils/pagination/cursor.py) and the limit-offset paginator        *)
(* (base/utils/pagination/limit_offset.py), with the table they page over. *)
(*                                                                         *)
(* Strings are sequences of one-character strings.  An Optional value is   *)
(* None (the empty tuple) or Some(x) (the one-element tuple).              *)
(***************************************************************************)
EXTENDS Integers, Sequences, FiniteSets, TLC

None == <<>>
Some(x) == <<x>>

(***************************************************************************)
(* Bounds of the model.                                                    *)
(***************************************************************************)
MaxRows == 5          \* rows of a dataset
IdBase == 7           \* ids and k values start above IdBase (one and two digits)
MaxK == 2             \* distinct values of the non-unique column k
MaxPageSize == 2      \* page_size / limit configurations 1..MaxPageSize
MaxCutoff == 2        \* offset_cutoff configurations 1..MaxCutoff
MaxRequests == 14     \* requests of one traversal
MaxWrites == 2        \* inserts and deletes during one traversal
MaxOffset == 4        \* offsets of the cursors and tokens of the codec
MaxPosLen == 2        \* length of the position strings of the codec
MaxTotal == 5         \* rows matched by the limit-offset queries
MaxRaw == 4           \* limit and offset arguments range over -2..MaxRaw
MaxLimit == 3         \* max_limit ranges over 1..MaxLimit

(***************************************************************************)
(* Python's str(int) and int(str).                                         *)
(***************************************************************************)
DigitChars == <<"0", "1", "2", "3", "4", "5", "6", "7", "8", "9">>

IsDigit(c) == \E i \in 1..10 : DigitChars[i] = c

DigitVal(c) == (CHOOSE i \in 1..10 : DigitChars[i] = c) - 1

RECURSIVE StrNat(_)
StrNat(n) ==
    IF n < 10 THEN <<DigitChars[n + 1]>>
    ELSE StrNat(n \div 10) \o <<DigitChars[(n % 10) + 1]>>

\* str(n) for an int n
str(n) == IF n < 0 THEN <<"-">> \o StrNat(-n) ELSE StrNat(n)

\* the value of the first n characters of the digit string s
RECURSIVE NatOf(_, _)
NatOf(s, n) == IF n = 0 THEN 0 ELSE 10 * NatOf(s, n - 1) + DigitVal(s[n])

\* s.strip() for blanks
Strip(s) ==
    LET inked == {i \in 1..Len(s) : s[i] # " "}
    IN  IF inked = {} THEN <<>>
        ELSE SubSeq(s, CHOOSE i \in inked : \A j \in inked : i <= j,
                       CHOOSE i \in inked : \A j \in inked : i >= j)

\* int(s): surrounding blanks are stripped, one sign is allowed, the rest must
\* be decimal digits; anything else raises ValueError (ok = FALSE).
int(s) ==
    LET t == Strip(s)
        signed == t # <<>> /\ t[1] \in {"-", "+"}
        body == IF signed THEN Tail(t) ELSE t
        ok == body # <<>> /\ \A i \in 1..Len(body) : IsDigit(body[i])
    IN  [ok |-> ok,
         val |-> IF ~ok THEN 0
                 ELSE IF signed /\ t[1] = "-" THEN -NatOf(body, Len(body))
                 ELSE NatOf(body, Len(body))]

(***************************************************************************)
(* Characters.  A text is a sequence of one-character strings.  AsciiChars *)
(* lists the printable ASCII characters by code, 32 to 126, with "QUOTE"   *)
(* for the double quote, "BACKSLASH" and "BACKTICK"; "CTL" stands          *)
(* for any ASCII control character, "U+E9" and "U+FFFD" for the non-ASCII  *)
(* characters of those code points.                                        *)
(***************************************************************************)
AsciiChars ==
  <<" ", "!", "QUOTE", "#", "$", "%", "&", "'", "(", ")", "*", "+",
     ",", "-", ".", "/", "0", "1", "2", "3", "4", "5", "6", "7",
     "8", "9", ":", ";", "<", "=", ">", "?", "@", "A", "B", "C",
     "D", "E", "F", "G", "H", "I", "J", "K", "L", "M", "N", "O",
     "P", "Q", "R", "S", "T", "U", "V", "W", "X", "Y", "Z", "[",
     "BACKSLASH", "]", "^", "_", "BACKTICK", "a", "b", "c", "d", "e", "f", "g",
     "h", "i", "j", "k", "l", "m", "n", "o", "p", "q", "r", "s",
     "t", "u", "v", "w", "x", "y", "z", "{", "|", "}", "~">>

\* ord(c) of an ASCII character
Ord(c) ==
    IF c = "CTL" THEN 1
    ELSE 31 + (CHOOSE i \in 1..Len(AsciiChars) : AsciiChars[i] = c)

\* the character of a byte, as bytes.decode gives it
Chr(b) ==
    IF b >= 32 /\ b <= 126 THEN AsciiChars[b - 31]
    ELSE IF b < 128 THEN "CTL"
    ELSE "U+FFFD"

UpperChars == SubSeq(AsciiChars, 34, 59)

LowerChars == SubSeq(AsciiChars, 66, 91)

HexChars == DigitChars \o SubSeq(UpperChars, 1, 6)

\* the value of a hexadecimal digit of either case, -1 for any other character
HexVal(c) ==
    IF IsDigit(c) THEN DigitVal(c)
    ELSE IF \E i \in 1..6 : UpperChars[i] = c \/ LowerChars[i] = c
         THEN 9 + (CHOOSE i \in 1..6 : UpperChars[i] = c \/ LowerChars[i] = c)
    ELSE -1

(***************************************************************************)
(* urllib.parse: urlencode (quote_plus of every value) and parse_qs.       *)
(***************************************************************************)
\* the characters quote_plus never escapes
SafeChars ==
    {DigitChars[i] : i \in 1..10}
    \cup {UpperChars[i] : i \in 1..26} \cup {LowerChars[i] : i \in 1..26}
    \cup {"_", ".", "-", "~"}

\* quote_plus of one ASCII character
QuoteChar(c) ==
    IF c \in SafeChars THEN <<c>>
    ELSE IF c = " " THEN <<"+">>
    ELSE <<"%", HexChars[(Ord(c) \div 16) + 1], HexChars[(Ord(c) % 16) + 1]>>

RECURSIVE quote_plus(_)
quote_plus(s) == IF s = <<>> THEN <<>> ELSE QuoteChar(s[1]) \o quote_plus(Tail(s))

\* the character a %XX escape stands for (None: h1 h2 are no two hex digits)
Unescape(h1, h2) ==
    IF HexVal(h1) >= 0 /\ HexVal(h2) >= 0
    THEN Some(Chr(16 * HexVal(h1) + HexVal(h2)))
    ELSE None

\* unquote_plus: '+' is a blank, %XX is the escaped character, a '%' that
\* starts no escape is kept
RECURSIVE UnquoteFrom(_, _)
UnquoteFrom(s, i) ==
    IF i > Len(s) THEN <<>>
    ELSE IF s[i] = "+" THEN <<" ">> \o UnquoteFrom(s, i + 1)
    ELSE IF s[i] = "%" /\ Len(s) >= i + 2 /\ Unescape(s[i + 1], s[i + 2]) # None
         THEN <<Unescape(s[i + 1], s[i + 2])[1]>> \o UnquoteFrom(s, i + 3)
    ELSE <<s[i]>> \o UnquoteFrom(s, i + 1)

unquote_plus(s) == UnquoteFrom(s, 1)

\* index of the n-th occurrence of c in s; 0 for n = 0 and Len(s) + 1 past
\* the last one
NthIndexOf(s, c, n) ==
    LET at == {i \in 1..Len(s) : s[i] = c}
    IN  IF n = 0 THEN 0
        ELSE IF n > Cardinality(at) THEN Len(s) + 1
        ELSE CHOOSE i \in at : Cardinality({j \in at : j <= i}) = n

\* s.split(c)
Split(s, c) ==
    [n \in 1..(Cardinality({i \in 1..Len(s) : s[i] = c}) + 1) |->
        SubSeq(s, NthIndexOf(s, c, n - 1) + 1, NthIndexOf(s, c, n) - 1)]

\* urlencode(tokens, doseq=True): tokens is a sequence of <<key, value>>
RECURSIVE urlencode(_)
urlencode(tokens) ==
    IF tokens = <<>> THEN <<>>
    ELSE quote_plus(tokens[1][1]) \o <<"=">> \o quote_plus(tokens[1][2])
         \o (IF Len(tokens) > 1 THEN <<"&">> ELSE <<>>) \o urlencode(Tail(tokens))

\* one name=value field of a query string (a field without '=' has a blank value)
ParseField(f) ==
    LET at == {j \in 1..Len(f) : f[j] = "="}
        i == IF at = {} THEN 0 ELSE CHOOSE j \in at : \A k \in at : j <= k
    IN  IF i = 0 THEN <<unquote_plus(f), <<>>>>
        ELSE <<unquote_plus(SubSeq(f, 1, i - 1)), unquote_plus(SubSeq(f, i + 1, Len(f)))>>

\* parse_qs(qs, keep_blank_values=True) as the sequence of its <<name, value>>
\* pairs in order; empty fields are skipped
parse_qs(qs) ==
    LET fs == Split(qs, "&")
        keep == SelectSeq(fs, LAMBDA f : f # <<>>)
    IN  [i \in 1..Len(keep) |-> ParseField(keep[i])]

\* tokens.get(key, [default])[0]
TokensGet(tokens, key, default) ==
    LET hits == SelectSeq(tokens, LAMBDA kv : kv[1] = key)
    IN  IF hits = <<>> THEN default ELSE hits[1][2]

(***************************************************************************)
(* base64.b64encode and base64.b64decode(s, validate=False) on ASCII text. *)
(* Decoding discards every character outside the alphabet, stops at the    *)
(* padding that completes a group, and raises binascii.Error when the      *)
(* alphabet characters form no whole number of groups.                     *)
(***************************************************************************)
B64Chars == UpperChars \o LowerChars \o DigitChars \o <<"+", "/">>

IsB64(c) == \E i \in 1..Len(B64Chars) : B64Chars[i] = c

\* the six bits a character of the alphabet stands for
B64Index(c) == (CHOOSE i \in 1..Len(B64Chars) : B64Chars[i] = c) - 1

\* the i-th byte of text, 0 past its end
ByteAt(text, i) == IF i <= Len(text) THEN Ord(text[i]) ELSE 0

\* the k-th group of six bits (k in 0..3) of the g-th group of three bytes
Sextet(text, g, k) ==
    CASE k = 0 -> ByteAt(text, 3 * g + 1) \div 4
      [] k = 1 -> (ByteAt(text, 3 * g + 1) % 4) * 16 + (ByteAt(text, 3 * g + 2) \div 16)
      [] k = 2 -> (ByteAt(text, 3 * g + 2) % 16) * 4 + (ByteAt(text, 3 * g + 3) \div 64)
      [] k = 3 -> ByteAt(text, 3 * g + 3) % 64

B64Char(text, g, k) ==
    IF (k = 2 /\ 3 * g + 2 > Len(text)) \/ (k = 3 /\ 3 * g + 3 > Len(text)) THEN "="
    ELSE B64Chars[Sextet(text, g, k) + 1]

\* b64encode(text.encode("ascii")).decode("ascii")
b64encode(text) ==
    [j \in 1..(4 * ((Len(text) + 2) \div 3)) |-> B64Char(text, (j - 1) \div 4, (j - 1) % 4)]

\* binascii.a2b_base64 reading s from index i: acc holds the six-bit groups
\* read so far, pads the '=' seen since the last of them
RECURSIVE B64Scan(_, _, _, _)
B64Scan(s, i, acc, pads) ==
    IF i > Len(s) THEN [ok |-> Len(acc) % 4 = 0, sextets |-> acc]
    ELSE IF s[i] = "="
    THEN (IF Len(acc) % 4 >= 2 /\ (Len(acc) % 4) + pads + 1 >= 4
          THEN [ok |-> TRUE, sextets |-> acc]
          ELSE B64Scan(s, i + 1, acc, pads + 1))
    ELSE IF IsB64(s[i]) THEN B64Scan(s, i + 1, Append(acc, B64Index(s[i])), 0)
    ELSE B64Scan(s, i + 1, acc, pads)

SextetAt(sextets, i) == IF i <= Len(sextets) THEN sextets[i] ELSE 0

\* the k-th byte (k in 0..2) of the g-th group of four six-bit groups
DecodedByte(sextets, g, k) ==
    CASE k = 0 -> SextetAt(sextets, 4 * g + 1) * 4 + (SextetAt(sextets, 4 * g + 2) \div 16)
      [] k = 1 -> (SextetAt(sextets, 4 * g + 2) % 16) * 16
                  + (SextetAt(sextets, 4 * g + 3) \div 4)
      [] k = 2 -> (SextetAt(sextets, 4 * g + 3) % 4) * 64 + SextetAt(sextets, 4 * g + 4)

\* the bytes n six-bit groups hold
NumBytes(n) == 3 * (n \div 4) + (IF n % 4 = 2 THEN 1 ELSE IF n % 4 = 3 THEN 2 ELSE 0)

B64Bytes(sextets) ==
    [m \in 1..NumBytes(Len(sextets)) |-> DecodedByte(sextets, (m - 1) \div 3, (m - 1) % 3)]

\* bytes.decode("ascii"): UnicodeDecodeError on a byte above 127
AsciiDecode(ok, bytes) ==
    IF ~ok \/ \E m \in 1..Len(bytes) : bytes[m] >= 128 THEN [ok |-> FALSE, text |-> <<>>]
    ELSE [ok |-> TRUE, text |-> [m \in 1..Len(bytes) |-> Chr(bytes[m])]]

DecodeScan(scan) == AsciiDecode(scan.ok, B64Bytes(scan.sextets))

\* b64decode(encoded.encode("ascii")).decode("ascii"); ok is FALSE when one
\* of the three steps raises (UnicodeEncodeError, binascii.Error and
\* UnicodeDecodeError are all ValueError)
b64decode(encoded) ==
    IF \E i \in 1..Len(encoded) : encoded[i] # "CTL"
           /\ \A j \in 1..Len(AsciiChars) : AsciiChars[j] # encoded[i]
    THEN [ok |-> FALSE, text |-> <<>>]
    ELSE DecodeScan(B64Scan(encoded, 1, <<>>, 0))

\* request.query_params.get(cursor_query_param) for a request of a link:
\* the token stands unescaped in the link's query string, and the server
\* unquotes the query string it receives
query_params_get(link) == unquote_plus(link)

(***************************************************************************)
(* Cursor = namedtuple("Cursor", ["offset", "reverse", "position"])        *)
(***************************************************************************)
Cursor(offset, reverse, position) ==
    [offset |-> offset, reverse |-> reverse, position |-> position]

\* decode_cursor without the upper clamp of lines 110-112
CursorFromTokensUnclamped(decoded, o, r, position, offset_cutoff) ==
    IF ~decoded \/ ~o.ok \/ ~r.ok THEN None
    ELSE Some(Cursor(IF o.val < 0 THEN 0 ELSE o.val, r.val # 0, position))

\* decode_cursor, lines 107-121: o and r are the results of int(), decoded
\* tells whether b64decode and the ASCII decoding succeeded
CursorFromTokens(decoded, o, r, position, offset_cutoff) ==
    IF ~decoded \/ ~o.ok \/ ~r.ok THEN None
    ELSE Some(Cursor(IF o.val < 0 THEN 0
                     ELSE IF o.val > offset_cutoff THEN offset_cutoff
                     ELSE o.val,
                     r.val # 0,
                     position))

\* decode_cursor, lines 105-117, on the parsed query string
CursorFromQuery(decoded, tokens, offset_cutoff) ==
    CursorFromTokens(decoded,
                     int(TokensGet(tokens, <<"o">>, <<"0">>)),
                     int(TokensGet(tokens, <<"r">>, <<"0">>)),
                     LET hits == SelectSeq(tokens, LAMBDA kv : kv[1] = <<"p">>)
                     IN  IF hits = <<>> THEN None ELSE Some(hits[1][2]),
                     offset_cutoff)

\* CursorPaginator.decode_cursor: encoded is the Optional cursor parameter
decode_cursor(encoded, offset_cutoff) ==
    IF encoded = None THEN None
    ELSE CursorFromQuery(b64decode(encoded[1]).ok,
                         parse_qs(b64decode(encoded[1]).text),
                         offset_cutoff)

\* CursorPaginator._encode_cursor: the token put in the link's cursor parameter
_encode_cursor(cursor) ==
    LET tokens ==
            (IF cursor.offset # 0 THEN <<<< <<"o">>, str(cursor.offset) >>>> ELSE <<>>)
         \o (IF cursor.reverse THEN <<<< <<"r">>, <<"1">> >>>> ELSE <<>>)
         \o (IF cursor.position # None THEN <<<< <<"p">>, cursor.position[1] >>>> ELSE <<>>)
    IN  b64encode(urlencode(tokens))

(***************************************************************************)
(* The table and the data query.  A row has a unique integer id and an     *)
(* integer column k that rows may share.  An ordering directive "-id" is   *)
(* [desc |-> TRUE, field |-> "id"].                                        *)
(***************************************************************************)
Row(id, k) == [id |-> id, k |-> k]

Directive(desc, field) == [desc |-> desc, field |-> field]

\* getattr(instance, field_name)
getattr(instance, field_name) ==
    IF field_name = "id" THEN instance.id
    ELSE IF field_name = "name" THEN instance.name ELSE instance.k

\* an ordering left as it is
_keep_ordering(ordering_tuple) == ordering_tuple

\* CursorPaginator._reverse_ordering
_reverse_ordering(ordering_tuple) ==
    [i \in 1..Len(ordering_tuple) |->
        Directive(~ordering_tuple[i].desc, ordering_tuple[i].field)]

\* a comes before b under ORDER BY order_by; rows equal on every sort key come
\* in the table's physical (id) order, whatever the direction of the sort
RECURSIVE Precedes(_, _, _)
Precedes(a, b, order_by) ==
    IF order_by = <<>> THEN a.id < b.id
    ELSE LET d == order_by[1]
             x == getattr(a, d.field)
             y == getattr(b, d.field)
         IN  IF x = y THEN Precedes(a, b, Tail(order_by))
             ELSE IF d.desc THEN x > y ELSE x < y

\* the rows of S in the order of ORDER BY order_by
SortRows(S, order_by) ==
    [i \in 1..Cardinality(S) |->
        CHOOSE r \in S : Cardinality({q \in S : Precedes(q, r, order_by)}) = i - 1]

\* stmt.filter(order_attr < value) / stmt.filter(order_attr > value); where is
\* None or Some([op, field, value])
MatchesInclusive(row, where) ==
    \/ where = None
    \/ /\ where # None
       /\ IF where[1].op = "lt" THEN getattr(row, where[1].field) <= where[1].value
          ELSE getattr(row, where[1].field) >= where[1].value

\* stmt.filter(order_attr < position_value) / (order_attr > position_value)
Matches(row, where) ==
    \/ where = None
    \/ /\ where # None
       /\ IF where[1].op = "lt" THEN getattr(row, where[1].field) < where[1].value
          ELSE getattr(row, where[1].field) > where[1].value

Min(a, b) == IF a < b THEN a ELSE b

Max(a, b) == IF a > b THEN a ELSE b

\* a query that returns one row less than its LIMIT
ScalarsShort(rows, order_by, where, offset, limit) ==
    LET sorted == SortRows({r \in rows : Matches(r, where)}, order_by)
    IN  SubSeq(sorted, offset + 1, Min(Len(sorted), offset + limit - 1))

\* session.scalars(stmt.order_by(..).filter(..).offset(offset).limit(limit))
Scalars(rows, order_by, where, offset, limit) ==
    LET sorted == SortRows({r \in rows : Matches(r, where)}, order_by)
    IN  SubSeq(sorted, offset + 1, Min(Len(sorted), offset + limit))

\* CursorPaginator._get_position_from_instance
_get_position_from_instance(instance, ordering) ==
    str(getattr(instance, ordering[1].field))

\* CursorPaginator._convert_position_to_value for the integer columns id and k
_convert_position_to_value(position_str) == int(position_str)

\* a sequence left in the order it has
NotReversed(s) == s

\* list(reversed(s))
Reversed(s) == [i \in 1..Len(s) |-> s[Len(s) + 1 - i]]

(***************************************************************************)
(* CursorPaginator.paginate: the paginator's fields after the call, with   *)
(* the OFFSET it applied to the data query.  error is TRUE when the        *)
(* position is no integer literal and the database rejects the comparison  *)
(* of the integer column with a string: the exception propagates and no    *)
(* page is built.                                                          *)
(***************************************************************************)
\* the position filter with the comparison of line 269 inverted
PositionFilterSameSide(reverse, current_position, ordering) ==
    IF current_position = None THEN None
    ELSE Some([op |-> IF reverse = ordering[1].desc THEN "lt" ELSE "gt",
               field |-> ordering[1].field,
               value |-> _convert_position_to_value(current_position[1]).val])

\* a position filter that takes the direction from the ordering alone
PositionFilterForwardOnly(reverse, current_position, ordering) ==
    IF current_position = None THEN None
    ELSE Some([op |-> IF ordering[1].desc THEN "lt" ELSE "gt",
               field |-> ordering[1].field,
               value |-> _convert_position_to_value(current_position[1]).val])

\* paginate, lines 256-272: the filter on the position key
PositionFilter(reverse, current_position, ordering) ==
    IF current_position = None THEN None
    ELSE Some([op |-> IF reverse # ordering[1].desc THEN "lt" ELSE "gt",
               field |-> ordering[1].field,
               value |-> _convert_position_to_value(current_position[1]).val])

\* paginate, lines 280-314: data is what the query returned
PageFromData(cursor, offset, reverse, current_position, data, page_size, ordering) ==
    [error |-> FALSE,
     cursor |-> cursor,
     offset |-> offset,
     page |-> IF reverse THEN Reversed(SubSeq(data, 1, Min(page_size, Len(data))))
              ELSE SubSeq(data, 1, Min(page_size, Len(data))),
     has_next |-> IF reverse THEN (current_position # None) \/ (offset > 0)
                  ELSE Len(data) > page_size,
     has_previous |-> IF reverse THEN Len(data) > page_size
                      ELSE (current_position # None) \/ (offset > 0),
     next_position |->
         IF reverse
         THEN (IF (current_position # None) \/ (offset > 0) THEN current_position
               ELSE None)
         ELSE (IF Len(data) > page_size
               THEN Some(_get_position_from_instance(data[Len(data)], ordering))
               ELSE None),
     previous_position |->
         IF reverse
         THEN (IF Len(data) > page_size
               THEN Some(_get_position_from_instance(data[Len(data)], ordering))
               ELSE None)
         ELSE (IF (current_position # None) \/ (offset > 0) THEN current_position
               ELSE None)]

\* paginate, lines 228-278: build and execute the data query
PaginateFrom(cursor, offset, reverse, current_position, rows, page_size, ordering) ==
    IF current_position # None /\ ~_convert_position_to_value(current_position[1]).ok
    THEN [error |-> TRUE, cursor |-> cursor, offset |-> offset, page |-> <<>>,
          has_next |-> FALSE, has_previous |-> FALSE,
          next_position |-> None, previous_position |-> None]
    ELSE PageFromData(cursor, offset, reverse, current_position,
                      Scalars(rows,
                              IF reverse THEN _reverse_ordering(ordering) ELSE ordering,
                              PositionFilter(reverse, current_position, ordering),
                              offset,
                              page_size + 1),
                      page_size, ordering)

\* paginate, lines 223-226
PaginateWith(cursor, rows, page_size, ordering) ==
    PaginateFrom(cursor,
                 IF cursor = None THEN 0 ELSE cursor[1].offset,
                 IF cursor = None THEN FALSE ELSE cursor[1].reverse,
                 IF cursor = None THEN None ELSE cursor[1].position,
                 rows, page_size, ordering)

paginate(encoded, rows, page_size, ordering, offset_cutoff) ==
    PaginateWith(decode_cursor(encoded, offset_cutoff), rows, page_size, ordering)

\* the number of rows at the tail of page (walking backward) whose position
\* equals compare: the loop of get_next_link
RECURSIVE TiesBackFrom(_, _, _, _)
TiesBackFrom(page, compare, ordering, i) ==
    IF i = 0 THEN 0
    ELSE IF Some(_get_position_from_instance(page[i], ordering)) # compare THEN 0
    ELSE 1 + TiesBackFrom(page, compare, ordering, i - 1)

\* the number of rows at the head of page whose position equals compare: the
\* loop of get_previous_link
RECURSIVE TiesFrom(_, _, _, _)
TiesFrom(page, compare, ordering, i) ==
    IF i > Len(page) THEN 0
    ELSE IF Some(_get_position_from_instance(page[i], ordering)) # compare THEN 0
    ELSE 1 + TiesFrom(page, compare, ordering, i + 1)

\* the fallback keeping the offset of the current cursor
NextFallbackSameOffset(p, page_size) ==
    IF ~p.has_previous THEN Cursor(0, FALSE, None)
    ELSE IF p.cursor[1].reverse THEN Cursor(0, FALSE, p.previous_position)
    ELSE Cursor(p.cursor[1].offset, FALSE, p.previous_position)

\* get_next_link, lines 339-352: every row of the page has the position of
\* the peek row, so the link falls back on an offset
NextFallback(p, page_size) ==
    IF ~p.has_previous THEN Cursor(page_size, FALSE, None)
    ELSE IF p.cursor[1].reverse THEN Cursor(0, FALSE, p.previous_position)
    ELSE Cursor(p.cursor[1].offset + page_size, FALSE, p.previous_position)

\* CursorPaginator.get_next_link: None or Some(token of the link); p is the
\* paginator after paginate()
get_next_link(p, page_size, ordering) ==
    IF ~p.has_next THEN None
    ELSE
      LET compare ==
              IF p.page # <<>> /\ p.cursor # None /\ p.cursor[1].reverse
                 /\ p.cursor[1].offset # 0
              THEN Some(_get_position_from_instance(p.page[Len(p.page)], ordering))
              ELSE p.next_position
          ties == TiesBackFrom(p.page, compare, ordering, Len(p.page))
          has_item_with_unique_position == ties < Len(p.page)
          cursor ==
              IF p.page = <<>> THEN Cursor(0, FALSE, p.next_position)
              ELSE IF has_item_with_unique_position
              THEN Cursor(ties, FALSE,
                     Some(_get_position_from_instance(p.page[Len(p.page) - ties], ordering)))
              ELSE NextFallback(p, page_size)
      IN  Some(_encode_cursor(cursor))

\* CursorPaginator.get_previous_link
get_previous_link(p, page_size, ordering) ==
    IF ~p.has_previous THEN None
    ELSE
      LET compare ==
              IF p.page # <<>> /\ p.cursor # None /\ ~p.cursor[1].reverse
                 /\ p.cursor[1].offset # 0
              THEN Some(_get_position_from_instance(p.page[1], ordering))
              ELSE p.previous_position
          ties == TiesFrom(p.page, compare, ordering, 1)
          has_item_with_unique_position == ties < Len(p.page)
          cursor ==
              IF p.page = <<>> THEN Cursor(0, TRUE, p.previous_position)
              ELSE IF has_item_with_unique_position
              THEN Cursor(ties, TRUE,
                     Some(_get_position_from_instance(p.page[ties + 1], ordering)))
              ELSE IF ~p.has_next THEN Cursor(page_size, TRUE, None)
              ELSE IF p.cursor[1].reverse
              THEN Cursor(p.cursor[1].offset + page_size, TRUE, p.next_position)
              ELSE Cursor(0, TRUE, p.next_position)
      IN  Some(_encode_cursor(cursor))

(***************************************************************************)
(* State.                                                                  *)
(***************************************************************************)
VARIABLES
    table,          \* the rows of the model's table
    page_size,      \* CursorPaginator.page_size
    offset_cutoff,  \* CursorPaginator.offset_cutoff
    ordering,       \* CursorPaginator.ordering
    param,          \* the cursor query parameter of the last request
    pager,          \* the paginator of the last request, after paginate()
    next_link,      \* the token of the response's next link
    previous_link,  \* the token of the response's previous link
    phase,          \* the client: "start", then "forward", "backward" (a
                    \* traversal), "link", "token", "answered" (one request
                    \* with a cursor), "built" (the limit-offset paginator)
    fwd,            \* the pages of the forward traversal, in the order received
    bwd,            \* the pages of the backward traversal, starting page first
    nreq,           \* requests made
    stable,         \* the rows that are in the table since the first request
    nwrites,        \* inserts and deletes made by other clients
    sent,           \* the Cursor the server encoded into the token of param
    lo,             \* the limit-offset paginator and what paginate() returned
    url,            \* the URL of the request being served
    setup,          \* filter_fields, ordering_fields, default_ordering of the paginator
    out,            \* what the last call returned to its caller
    log             \* the steps of the last call, in the order they were taken

vars == <<table, page_size, offset_cutoff, ordering, param, pager, next_link,
          previous_link, phase, fwd, bwd, nreq, stable, nwrites, sent, lo,
          url, setup, out, log>>

\* the request and the call in progress
call == <<url, setup, out, log>>

config == <<page_size, offset_cutoff, ordering>>

response == <<param, pager, next_link, previous_link, nreq>>

client == <<phase, fwd, bwd>>

DescendingId == <<Directive(TRUE, "id")>>

\* the datasets: n rows with ids IdBase+1 .. IdBase+n, whose k values do not
\* decrease with the id (tie groups of every size and place)
Tables ==
    {{Row(IdBase + i, IdBase + kf[i]) : i \in 1..n} :
        <<n, kf>> \in {<<m, f>> \in
            UNION {{<<m, f>> : f \in [1..m -> 1..MaxK]} : m \in 0..MaxRows} :
            \A i \in 1..(m - 1) : f[i] <= f[i + 1]}}

\* the configurations of the application: page_size comes from the limit
\* query parameter (1..100) and never exceeds offset_cutoff (1000)
Configs ==
    {<<ps, oc>> \in (1..MaxPageSize) \X (1..MaxCutoff) : ps <= oc}

InitClient ==
    /\ param = None
    /\ pager = [error |-> FALSE, cursor |-> None, offset |-> 0, page |-> <<>>,
                has_next |-> FALSE, has_previous |-> FALSE,
                next_position |-> None, previous_position |-> None]
    /\ next_link = None
    /\ previous_link = None
    /\ phase = "start"
    /\ fwd = <<>>
    /\ bwd = <<>>
    /\ nreq = 0

\* LimitOffsetPaginator before construction
\* no LimitOffsetPaginator yet; asked_limit and asked_offset are the
\* arguments its constructor was called with
NoLimitOffset ==
    [built |-> FALSE, asked_limit |-> 0, asked_offset |-> 0,
     limit |-> 0, offset |-> 0, max_limit |-> 0,
     paginated |-> FALSE, data |-> <<>>, total_count |-> 0]

\* no write, no token sent, no LimitOffsetPaginator, no request URL, a
\* paginator built without filter_fields, ordering_fields and
\* default_ordering (BasePaginator.__init__), nothing called yet
InitOther ==
    /\ stable = {}
    /\ nwrites = 0
    /\ sent = None
    /\ lo = NoLimitOffset
    /\ url = None
    /\ setup = [filter_fields |-> <<>>, ordering_fields |-> <<>>,
                default_ordering |-> None]
    /\ out = None
    /\ log = <<>>

Init ==
    /\ table \in Tables
    /\ \E c \in Configs : page_size = c[1] /\ offset_cutoff = c[2]
    /\ ordering \in {<<Directive(TRUE, "id")>>, <<Directive(FALSE, "id")>>,
                      <<Directive(TRUE, "k")>>, <<Directive(FALSE, "k")>>}
    /\ InitClient
    /\ InitOther

\* CursorPaginator.get_paginated_response for a request whose cursor
\* parameter is encoded
Respond(encoded) ==
    /\ param' = encoded
    /\ pager' = paginate(encoded, table, page_size, ordering, offset_cutoff)
    /\ next_link' = get_next_link(pager', page_size, ordering)
    /\ previous_link' = get_previous_link(pager', page_size, ordering)
    /\ nreq' = nreq + 1

\* the client requests the first page: no cursor parameter
FirstPage ==
    /\ phase = "start"
    /\ Respond(None)
    /\ phase' = "forward"
    /\ fwd' = <<pager'.page>>
    /\ stable' = table
    /\ UNCHANGED <<table, config, bwd, nwrites, sent, lo, call>>

\* the client requests the next link of the last response
FollowNext ==
    /\ phase = "forward"
    /\ next_link # None
    /\ nreq < MaxRequests
    /\ Respond(Some(query_params_get(next_link[1])))
    /\ fwd' = Append(fwd, pager'.page)
    /\ UNCHANGED <<table, config, phase, bwd, stable, nwrites, sent, lo, call>>

\* on the last page of the forward traversal the client turns back and
\* requests the previous link
TurnBack ==
    /\ phase = "forward"
    /\ next_link = None
    /\ previous_link # None
    /\ nreq < MaxRequests
    /\ Respond(Some(query_params_get(previous_link[1])))
    /\ phase' = "backward"
    /\ bwd' = <<fwd[Len(fwd)], pager'.page>>
    /\ UNCHANGED <<table, config, fwd, stable, nwrites, sent, lo, call>>

\* the client requests the previous link of the last response
FollowPrevious ==
    /\ phase = "backward"
    /\ previous_link # None
    /\ nreq < MaxRequests
    /\ Respond(Some(query_params_get(previous_link[1])))
    /\ bwd' = Append(bwd, pager'.page)
    /\ UNCHANGED <<table, config, phase, fwd, stable, nwrites, sent, lo, call>>

Next ==
    \/ FirstPage
    \/ FollowNext
    \/ TurnBack
    \/ FollowPrevious

Spec == Init /\ [][Next]_vars

(***************************************************************************)
(* Forward traversal while other clients insert and delete rows between    *)
(* the requests.  Every paginate() call reads the table of one state.      *)
(***************************************************************************)
\* ids of the rows other clients may insert: IdBase+1 .. IdBase+MaxPool
MaxPool == 4

PoolRow(i) == Row(IdBase + i, IdBase + 1)

InitWrites ==
    /\ table \in {{PoolRow(i) : i \in S} : S \in SUBSET (1..MaxPool)}
    /\ page_size \in 1..MaxPageSize
    /\ offset_cutoff = MaxCutoff + MaxPageSize
    /\ ordering = DescendingId
    /\ InitClient
    /\ InitOther

TraversalRunning == phase = "start" \/ (phase = "forward" /\ next_link # None)

\* another client inserts a row
Insert(i) ==
    /\ TraversalRunning
    /\ nwrites < MaxWrites
    /\ PoolRow(i) \notin table
    /\ table' = table \cup {PoolRow(i)}
    /\ nwrites' = nwrites + 1
    /\ UNCHANGED <<config, response, client, stable, sent, lo, call>>

\* another client deletes a row
Delete(row) ==
    /\ TraversalRunning
    /\ nwrites < MaxWrites
    /\ row \in table
    /\ table' = table \ {row}
    /\ stable' = stable \ {row}
    /\ nwrites' = nwrites + 1
    /\ UNCHANGED <<config, response, client, sent, lo, call>>

NextWrites ==
    \/ FirstPage
    \/ FollowNext
    \/ \E i \in 1..MaxPool : Insert(i)
    \/ \E row \in table : Delete(row)

SpecWrites == InitWrites /\ [][NextWrites]_vars

(***************************************************************************)
(* Properties of a traversal.                                              *)
(***************************************************************************)
RECURSIVE Concat(_)
Concat(pages) == IF pages = <<>> THEN <<>> ELSE pages[1] \o Concat(Tail(pages))

NoDuplicates(s) == \A i, j \in 1..Len(s) : s[i] = s[j] => i = j

\* the forward traversal has reached a page with has_next = false
ForwardDone == phase = "backward" \/ (phase = "forward" /\ next_link = None)

(***************************************************************************)
(* The token codec: the server encodes a Cursor into a link and the client *)
(* sends the token back, or the client sends a token of its own making.    *)
(***************************************************************************)
\* every Cursor value: offset >= 0, reverse, position a string or absent
Cursors ==
    {Cursor(o, r, pos) :
        o \in 0..MaxOffset, r \in BOOLEAN,
        pos \in {None} \cup {Some(text) :
                                 text \in UNION {[1..n -> {"7", "&", "%", " ", "~"}] :
                                                    n \in 0..MaxPosLen}}}

Field(key, value) == IF value = None THEN <<>> ELSE << <<key, value[1]>> >>

\* the payloads a client may make: the values it may write for the o, r and
\* p fields (None: no field)
CraftedPayloads ==
    {urlencode(Field(<<"o">>, o) \o Field(<<"r">>, r) \o Field(<<"p">>, pos)) :
        o \in {None, Some(<<"-", "1">>), Some(<<"x">>), Some(<<>>),
                Some(<<"1", ".", "5">>), Some(<<" ", "2">>)}
                   \cup {Some(str(n)) : n \in 0..(MaxOffset + 1)},
        r \in {None, Some(<<"0">>), Some(<<"1">>), Some(<<"2">>), Some(<<"x">>), Some(<<>>)},
        pos \in {None, Some(str(IdBase + 2)), Some(<<"x">>)}}

\* what a client may send as the cursor parameter: the token of a payload,
\* the same with a character outside the base64 alphabet in front, text that
\* is no whole number of base64 groups, a non-ASCII character, and the token
\* of the byte FF
CraftedTokens ==
    {b64encode(pl) : pl \in CraftedPayloads}
    \cup {<<"!">> \o b64encode(pl) : pl \in CraftedPayloads}
    \cup {<<"a", "b", "c">>, <<"c">>, <<"U+E9">>, <<"/", "w", "=", "=">>}

InitCodec ==
    /\ table \in {{}, {PoolRow(i) : i \in 1..MaxPool}}
    /\ \E c \in Configs : page_size = c[1] /\ offset_cutoff = c[2]
    /\ ordering = DescendingId
    /\ InitClient
    /\ InitOther

\* the server encodes cursor c into a link of a response
EncodeCursor(c) ==
    /\ phase = "start"
    /\ sent' = Some(c)
    /\ param' = Some(_encode_cursor(c))
    /\ phase' = "link"
    /\ UNCHANGED <<table, config, pager, next_link, previous_link, nreq, fwd, bwd,
                   stable, nwrites, lo, call>>

\* the client requests the link it was given
FollowLink ==
    /\ phase = "link"
    /\ Respond(Some(query_params_get(param[1])))
    /\ phase' = "answered"
    /\ UNCHANGED <<table, config, fwd, bwd, stable, nwrites, sent, lo, call>>

\* the client makes up the value of the cursor parameter
CraftToken(token) ==
    /\ phase = "start"
    /\ param' = Some(token)
    /\ phase' = "token"
    /\ UNCHANGED <<table, config, pager, next_link, previous_link, nreq, fwd, bwd,
                   stable, nwrites, sent, lo, call>>

\* the client requests the page of the value it made up
SendToken ==
    /\ phase = "token"
    /\ Respond(param)
    /\ phase' = "answered"
    /\ UNCHANGED <<table, config, fwd, bwd, stable, nwrites, sent, lo, call>>

NextCodec ==
    \/ \E c \in Cursors : EncodeCursor(c)
    \/ FollowLink
    \/ \E token \in CraftedTokens : CraftToken(token)
    \/ SendToken

SpecCodec == InitCodec /\ [][NextCodec]_vars

(***************************************************************************)
(* LimitOffsetPaginator: one paginator per request, built from the limit   *)
(* and offset query parameters, then paginate().                           *)
(***************************************************************************)
\* the limit clamped from above only
ClampLimitNoFloor(limit, max_limit) == Min(limit, max_limit)

\* self.limit = min(max(1, limit), max_limit)
ClampLimit(limit, max_limit) == Min(Max(1, limit), max_limit)

\* self.offset = max(0, offset)
ClampOffset(offset) == Max(0, offset)

\* BasePaginator._get_total_count: the rows the request's filters match
_get_total_count(rows) == Cardinality(rows)

\* the data query without its OFFSET
LimitOffsetDataNoOffset(rows, order_by, offset, limit) ==
    Scalars(rows, order_by, None, 0, limit)

\* the data query of LimitOffsetPaginator.paginate
LimitOffsetData(rows, order_by, offset, limit) ==
    Scalars(rows, order_by, None, offset, limit)

InitLO ==
    /\ \E n \in 0..MaxTotal : table = {PoolRow(i) : i \in 1..n}
    /\ page_size = 1
    /\ offset_cutoff = 1
    /\ ordering = DescendingId
    /\ InitClient
    /\ InitOther

\* LimitOffsetPaginator.__init__
Construct(limit, offset, max_limit) ==
    /\ phase = "start"
    /\ lo' = [NoLimitOffset EXCEPT !.built = TRUE,
                                   !.asked_limit = limit,
                                   !.asked_offset = offset,
                                   !.limit = ClampLimit(limit, max_limit),
                                   !.offset = ClampOffset(offset),
                                   !.max_limit = max_limit]
    /\ phase' = "built"
    /\ UNCHANGED <<table, config, response, fwd, bwd, stable, nwrites, sent, call>>

\* LimitOffsetPaginator.paginate
PaginateLO ==
    /\ phase = "built"
    /\ lo' = [lo EXCEPT !.paginated = TRUE,
                        !.total_count = _get_total_count(table),
                        !.data = LimitOffsetData(table, ordering, lo.offset, lo.limit)]
    /\ phase' = "answered"
    /\ UNCHANGED <<table, config, response, fwd, bwd, stable, nwrites, sent, call>>

NextLO ==
    \/ \E limit, offset \in (0 - 2)..MaxRaw, max_limit \in 1..MaxLimit :
            Construct(limit, offset, max_limit)
    \/ PaginateLO

SpecLO == InitLO /\ [][NextLO]_vars

\* the names the code gives query parameters, routes and operators, and the
\* names of the model's columns (the integers id and k, the text name) and of
\* a field it lacks (z), as texts
Name ==
    [limit |-> <<"l", "i", "m", "i", "t">>,
     offset |-> <<"o", "f", "f", "s", "e", "t">>,
     q |-> <<"q">>,
     search |-> <<"s", "e", "a", "r", "c", "h">>,
     tag |-> <<"t", "a", "g">>,
     list |-> <<"/", "l", "i", "s", "t">>,
     cursor |-> <<"c", "u", "r", "s", "o", "r">>,
     ordering |-> <<"o", "r", "d", "e", "r", "i", "n", "g">>,
     order_by |-> <<"o", "r", "d", "e", "r", "_", "b", "y">>,
     id |-> <<"i", "d">>,
     k |-> <<"k">>,
     name |-> <<"n", "a", "m", "e">>,
     z |-> <<"z">>,
     isin |-> <<"i", "n">>]

(***************************************************************************)
(* BasePaginator._build_url.  A URL is the record urlparse makes of it; a  *)
(* request reaches the handler under the path of its route, which has no   *)
(* ';' and no fragment.  The dict of parse_qs is the sequence of its        *)
(* <<key, values>> entries in insertion order.                             *)
(***************************************************************************)
Url(scheme, netloc, path, query) ==
    [scheme |-> scheme, netloc |-> netloc, path |-> path, query |-> query]

\* the keys of the fields of a query string, each once, in the order of
\* their first field
QueryKeys(pairs) ==
    LET first == SelectSeq([i \in 1..Len(pairs) |-> i],
                           LAMBDA i : \A j \in 1..(i - 1) : pairs[j][1] # pairs[i][1])
    IN  [n \in 1..Len(first) |-> pairs[first[n]][1]]

\* the values of the fields of one key, in order
ValuesOf(pairs, key) ==
    LET hits == SelectSeq(pairs, LAMBDA kv : kv[1] = key)
    IN  [n \in 1..Len(hits) |-> hits[n][2]]

\* an update that leaves the values the key already has
SetParamKeepingOld(dict, key, value) ==
    IF value = None THEN SelectSeq(dict, LAMBDA entry : entry[1] # key)
    ELSE IF \E n \in 1..Len(dict) : dict[n][1] = key
    THEN [n \in 1..Len(dict) |->
            IF dict[n][1] = key THEN <<key, Append(dict[n][2], value[1])>> ELSE dict[n]]
    ELSE Append(dict, <<key, <<value[1]>>>>)

\* query_params[key] = [str(value)], or query_params.pop(key, None) when the
\* value is None
SetParam(dict, key, value) ==
    IF value = None THEN SelectSeq(dict, LAMBDA entry : entry[1] # key)
    ELSE IF \E n \in 1..Len(dict) : dict[n][1] = key
    THEN [n \in 1..Len(dict) |-> IF dict[n][1] = key THEN <<key, <<value[1]>>>> ELSE dict[n]]
    ELSE Append(dict, <<key, <<value[1]>>>>)

\* the loop over params.items(), from the i-th override on
RECURSIVE SetParams(_, _, _)
SetParams(dict, params, i) ==
    IF i > Len(params) THEN dict
    ELSE SetParams(SetParam(dict, params[i][1], params[i][2]), params, i + 1)

\* the <<key, value>> pairs urlencode(query_params, doseq=True) writes
RECURSIVE DoSeq(_, _)
DoSeq(dict, n) ==
    IF n > Len(dict) THEN <<>>
    ELSE [v \in 1..Len(dict[n][2]) |-> <<dict[n][1], dict[n][2][v]>>] \o DoSeq(dict, n + 1)

\* BasePaginator._build_url: params is the sequence of <<key, Optional value>>;
\* query_params is dict(parse_qs(parsed_url.query, keep_blank_values=True))
_build_url(request_url, params) ==
    LET pairs == parse_qs(request_url.query)
        keys == QueryKeys(pairs)
        query_params == [n \in 1..Len(keys) |-> <<keys[n], ValuesOf(pairs, keys[n])>>]
    IN  Url(request_url.scheme, request_url.netloc, request_url.path,
            urlencode(DoSeq(SetParams(query_params, params, 1), 1)))

(***************************************************************************)
(* LimitOffsetPaginator.get_paginated_response.                            *)
(***************************************************************************)
\* a page number counted from 0
CurrentPageFromZero(limit, offset, total_count) ==
    IF total_count > 0 THEN (IF limit > 0 THEN offset \div limit ELSE 1) ELSE 1

\* meta.current_page, lines 139 and 160
CurrentPage(limit, offset, total_count) ==
    IF total_count > 0 THEN (IF limit > 0 THEN (offset \div limit) + 1 ELSE 1) ELSE 1

\* a previous link that always goes to the first page
PreviousOffsetFirst(limit, offset) == 0

\* prev_offset = max(0, self.offset - self.limit)
PreviousOffset(limit, offset) == Max(0, offset - limit)

\* the PaginatedResponse of get_paginated_response, lines 121-166: the links
\* are self._build_url(limit=..., offset=...), meta is PaginationMeta(...)
\* with total_pages of lines 140-144 as page_count
LimitOffsetResponse(request_url, limit, offset, data, total_count, include_meta) ==
    [count |-> total_count,
     next |-> IF total_count > 0 /\ offset + limit < total_count
              THEN Some(_build_url(request_url,
                                   << <<Name.limit, Some(str(limit))>>,
                                      <<Name.offset, Some(str(offset + limit))>> >>))
              ELSE None,
     previous |-> IF total_count > 0 /\ offset > 0
                  THEN Some(_build_url(request_url,
                                       << <<Name.limit, Some(str(limit))>>,
                                          <<Name.offset,
                                            Some(str(PreviousOffset(limit, offset)))>> >>))
                  ELSE None,
     meta |-> IF include_meta
              THEN Some([total_count |-> total_count,
                         page_count |-> IF limit > 0 /\ total_count > 0
                                        THEN (total_count + limit - 1) \div limit
                                        ELSE 0,
                         current_page |-> CurrentPage(limit, offset, total_count),
                         page_size |-> limit,
                         has_next |-> offset + limit < total_count,
                         has_previous |-> offset > 0 /\ total_count > 0])
              ELSE None,
     data |-> data]

\* a request arrives and the route builds the paginator: __init__
ConstructFor(limit, offset, max_limit, query) ==
    /\ phase = "start"
    /\ url' = Some(Url("http", "testserver", Name.list, query))
    /\ lo' = [NoLimitOffset EXCEPT !.built = TRUE,
                                   !.asked_limit = limit,
                                   !.asked_offset = offset,
                                   !.limit = ClampLimit(limit, max_limit),
                                   !.offset = ClampOffset(offset),
                                   !.max_limit = max_limit]
    /\ phase' = "built"
    /\ UNCHANGED <<table, config, response, fwd, bwd, stable, nwrites, sent,
                   setup, out, log>>

\* LimitOffsetPaginator.get_paginated_response
GetPaginatedResponse(include_meta) ==
    /\ phase = "built"
    /\ lo' = [lo EXCEPT !.paginated = TRUE,
                        !.total_count = _get_total_count(table),
                        !.data = LimitOffsetData(table, ordering, lo.offset, lo.limit)]
    /\ out' = Some(LimitOffsetResponse(url[1], lo.limit, lo.offset, lo'.data,
                                       lo'.total_count, include_meta))
    /\ phase' = "answered"
    /\ UNCHANGED <<table, config, response, fwd, bwd, stable, nwrites, sent,
                   url, setup, log>>

\* the query string of a request is empty, or has limit and offset as the
\* paginator got them, alone or among other parameters (an escaped value, a
\* repeated key with a blank value)
NextResponseLO ==
    \/ \E limit, offset \in (0 - 2)..MaxRaw, max_limit \in 1..MaxLimit :
         \E query \in
               {<<>>,
                urlencode(<< <<Name.limit, str(limit)>>, <<Name.offset, str(offset)>> >>),
                urlencode(<< <<Name.q, <<"a", " ", "&">>>>, <<Name.offset, str(offset)>>,
                             <<Name.tag, <<"x">>>>, <<Name.limit, str(limit)>>,
                             <<Name.tag, <<>>>> >>)} :
            ConstructFor(limit, offset, max_limit, query)
    \/ \E include_meta \in BOOLEAN : GetPaginatedResponse(include_meta)

SpecResponseLO == InitLO /\ [][NextResponseLO]_vars

(***************************************************************************)
(* Link building after paginate(): get_next_link and get_previous_link     *)
(* called again on the paginator of the last request.  The log keeps, for  *)
(* every call, the request it followed, the method, the token returned and *)
(* the paginator as the call left it.                                      *)
(***************************************************************************)
MaxCalls == 3

\* a link method that walks the page with self.page.reverse()
AfterLinkReversingPage(p) == [p EXCEPT !.page = Reversed(p.page)]

\* the paginator after get_next_link or get_previous_link: the methods
\* assign only local names and walk reversed(self.page), a copy
AfterLink(p) == p

LinkCall(which, token) ==
    /\ nreq > 0
    /\ ~pager.error
    /\ Len(log) < MaxCalls
    /\ pager' = AfterLink(pager)
    /\ log' = Append(log, [req |-> nreq, which |-> which, token |-> token, seen |-> pager'])
    /\ UNCHANGED <<table, config, param, next_link, previous_link, nreq, client,
                   stable, nwrites, sent, lo, url, setup, out>>

\* the traversal goes on until the client starts calling get_next_link and
\* get_previous_link
NextLinks ==
    \/ log = <<>> /\ Next
    \/ LinkCall("next", get_next_link(pager, page_size, ordering))
    \/ LinkCall("previous", get_previous_link(pager, page_size, ordering))

\* the paginators of Init on the datasets of two to four rows
InitLinks ==
    /\ Init
    /\ Cardinality(table) \in 2..4

SpecLinks == InitLinks /\ [][NextLinks]_vars

(***************************************************************************)
(* The request's query parameters and QueryParamExtractor.extract_ordering, *)
(* BaseQueryBuilder.apply_ordering.  Parameter names, values and field     *)
(* names are texts (sequences of characters); the model has the columns id *)
(* and k.                                                                  *)
(***************************************************************************)
\* request.query_params.get(key): the value of the last field named key
QueryParamsGet(query, key) ==
    IF ValuesOf(parse_qs(query), key) = <<>> THEN None
    ELSE Some(ValuesOf(parse_qs(query), key)[Len(ValuesOf(parse_qs(query), key))])

\* the truth value of an Optional[str]
Truthy(value) == value # None /\ value[1] # <<>>

\* a if a is not None else b
OrIfPresent(a, b) == IF a # None THEN a ELSE b

\* a or b
Or(a, b) == IF Truthy(a) THEN a ELSE b

\* s.lstrip(c)
RECURSIVE LStrip(_, _)
LStrip(s, c) == IF s # <<>> /\ s[1] = c THEN LStrip(Tail(s), c) ELSE s

Range(s) == {s[i] : i \in 1..Len(s)}

\* QueryParamExtractor.extract_ordering: the tokens of the parameter are
\* stripped, kept when order.lstrip("-") is in ordering_fields, and replaced
\* by the default when none is left
extract_ordering(query, ordering_fields, default_ordering) ==
    LET ordering_param == Or(QueryParamsGet(query, Name.ordering),
                             QueryParamsGet(query, Name.order_by))
        tokens == IF Truthy(ordering_param) THEN Split(ordering_param[1], ",") ELSE <<>>
        ordering_list ==
            SelectSeq([n \in 1..Len(tokens) |-> Strip(tokens[n])],
                      LAMBDA order : LStrip(order, "-") \in Range(ordering_fields))
    IN  IF ordering_list = <<>> /\ Truthy(default_ordering)
        THEN <<default_ordering[1]>>
        ELSE ordering_list

\* hasattr(self.model, field_name)
hasattr(field_name) == field_name \in {Name.id, Name.k, Name.name}

\* BaseQueryBuilder.apply_ordering: the ORDER BY terms it adds to the
\* statement
apply_ordering(ordering_list) ==
    LET known == SelectSeq(ordering_list, LAMBDA item : hasattr(LStrip(item, "-")))
    IN  [n \in 1..Len(known) |->
            Directive(known[n][1] = "-",
                      IF LStrip(known[n], "-") = Name.id THEN "id"
                      ELSE IF LStrip(known[n], "-") = Name.k THEN "k" ELSE "name")]

\* the ORDER BY of the data query: the terms of _build_data_stmt, then the
\* terms paginate adds (order_by calls accumulate)
DataQueryOrderBy(ordering_terms, reverse, order) ==
    ordering_terms \o (IF reverse THEN _reverse_ordering(order) ELSE order)

\* paginate, lines 223-314, for a paginator whose _build_data_stmt sorts by
\* ordering_terms
PaginateOrdered(cursor, rows, size, order, ordering_terms) ==
    LET offset == IF cursor = None THEN 0 ELSE cursor[1].offset
        reverse == IF cursor = None THEN FALSE ELSE cursor[1].reverse
        current_position == IF cursor = None THEN None ELSE cursor[1].position
    IN  IF current_position # None /\ ~_convert_position_to_value(current_position[1]).ok
        THEN [error |-> TRUE, cursor |-> cursor, offset |-> offset, page |-> <<>>,
              has_next |-> FALSE, has_previous |-> FALSE,
              next_position |-> None, previous_position |-> None]
        ELSE PageFromData(cursor, offset, reverse, current_position,
                          Scalars(rows,
                                  DataQueryOrderBy(ordering_terms, reverse, order),
                                  PositionFilter(reverse, current_position, order),
                                  offset,
                                  size + 1),
                          size, order)

\* a paginator with ordering -id built with ordering_fields and
\* default_ordering, and a request with the ordering parameter a client may
\* send
InitOrdering ==
    /\ table \in {t \in Tables : Cardinality(t) \in 3..4}
    /\ page_size = 1
    /\ offset_cutoff = MaxCutoff
    /\ ordering = DescendingId
    /\ InitClient
    /\ stable = {}
    /\ nwrites = 0
    /\ sent = None
    /\ lo = NoLimitOffset
    /\ url \in {Some(Url("http", "testserver", Name.list, query)) :
                    query \in {<<>>,
                               urlencode(<< <<Name.ordering, <<"k">>>> >>),
                               urlencode(<< <<Name.ordering, <<"-", "k">>>> >>),
                               urlencode(<< <<Name.order_by, <<"-", "i", "d">>>> >>),
                               urlencode(<< <<Name.ordering, <<"z">>>> >>)}}
    /\ setup \in {[filter_fields |-> <<>>, ordering_fields |-> fields,
                    default_ordering |-> default] :
                      fields \in {<<>>, <<Name.k>>, <<Name.k, Name.id>>},
                      default \in {None, Some(<<"k">>)}}
    /\ out = None
    /\ log = <<>>

\* CursorPaginator.get_paginated_response of a paginator built with
\* ordering_fields and default_ordering, for the request url with the cursor
\* parameter encoded; out keeps the ORDER BY of the data query
RespondOrdered(encoded) ==
    LET cursor == decode_cursor(encoded, offset_cutoff)
        terms == apply_ordering(extract_ordering(url[1].query, setup.ordering_fields,
                                                 setup.default_ordering))
    IN  /\ nreq < MaxRequests
        /\ param' = encoded
        /\ pager' = PaginateOrdered(cursor, table, page_size, ordering, terms)
        /\ out' = Some([reverse |-> cursor # None /\ cursor[1].reverse,
                        order_by |-> DataQueryOrderBy(terms,
                                                      cursor # None /\ cursor[1].reverse,
                                                      ordering)])
        /\ next_link' = get_next_link(pager', page_size, ordering)
        /\ previous_link' = get_previous_link(pager', page_size, ordering)
        /\ nreq' = nreq + 1
        /\ phase' = "paging"
        /\ UNCHANGED <<table, config, fwd, bwd, stable, nwrites, sent, lo, url, setup, log>>

\* the first request, then requests with the next or the previous token
NextOrdering ==
    \/ phase = "start" /\ RespondOrdered(None)
    \/ /\ phase = "paging"
       /\ next_link # None
       /\ RespondOrdered(Some(query_params_get(next_link[1])))
    \/ /\ phase = "paging"
       /\ previous_link # None
       /\ RespondOrdered(Some(query_params_get(previous_link[1])))

SpecOrdering == InitOrdering /\ [][NextOrdering]_vars

(***************************************************************************)
(* _build_url on the query strings a client can send: up to MaxFields      *)
(* fields joined by '&', among them repeated keys, blank values, a field   *)
(* without '=', an empty field, escaped characters and the keys the        *)
(* overrides name.                                                         *)
(***************************************************************************)
MaxFields == 3

\* "&".join(fields)
RECURSIVE Join(_, _)
Join(fields, sep) ==
    IF fields = <<>> THEN <<>>
    ELSE IF Len(fields) = 1 THEN fields[1]
    ELSE fields[1] \o <<sep>> \o Join(Tail(fields), sep)

InitBuildUrl ==
    /\ table = {}
    /\ page_size = 1
    /\ offset_cutoff = 1
    /\ ordering = DescendingId
    /\ InitClient
    /\ stable = {}
    /\ nwrites = 0
    /\ sent = None
    /\ lo = NoLimitOffset
    /\ url \in {Some(Url(scheme, "testserver", Name.list, Join(fields, "&"))) :
                    scheme \in {"http", "https"},
                    fields \in UNION {[1..n ->
                                          {<<"a", "=", "1">>,
                                           <<"a", "=">>,
                                           <<"a">>,
                                           <<"b", "=", "x", "+", "%", "2", "6">>,
                                           <<>>,
                                           Name.limit \o <<"=", "5">>,
                                           Name.offset \o <<"=", "2">>}] :
                                      n \in 0..MaxFields}}
    /\ setup = [filter_fields |-> <<>>, ordering_fields |-> <<>>, default_ordering |-> None]
    /\ out = None
    /\ log = <<>>

\* a call self._build_url(**params) while the request is handled
BuildUrl(params) ==
    /\ phase = "start"
    /\ out' = Some([params |-> params, url |-> _build_url(url[1], params)])
    /\ phase' = "answered"
    /\ UNCHANGED <<table, config, response, fwd, bwd, stable, nwrites, sent, lo,
                   url, setup, log>>

\* the keyword arguments of the call
NextBuildUrl ==
    \E params \in {<<>>,
                    << <<Name.limit, Some(<<"2">>)>>, <<Name.offset, Some(<<"4">>)>> >>,
                    << <<Name.offset, None>> >>,
                    << <<Name.limit, None>>, <<Name.offset, Some(<<"0">>)>> >>,
                    << <<Name.cursor, Some(<<"x", " ", "=">>)>>, <<Name.offset, None>> >>} :
        BuildUrl(params)

SpecBuildUrl == InitBuildUrl /\ [][NextBuildUrl]_vars

(***************************************************************************)
(* extract_ordering on the requests a client can send: up to MaxParams     *)
(* ordering / order_by parameters with values from OrderingValues.         *)
(***************************************************************************)
MaxParams == 2

\* a request with up to MaxParams ordering / order_by parameters (blank, one
\* field, two dashes, a blank before a token, an unknown field among known
\* ones, an unknown field), and the ordering_fields and default_ordering of
\* the paginator
InitExtract ==
    /\ table = {}
    /\ page_size = 1
    /\ offset_cutoff = 1
    /\ ordering = DescendingId
    /\ InitClient
    /\ stable = {}
    /\ nwrites = 0
    /\ sent = None
    /\ lo = NoLimitOffset
    /\ url \in {Some(Url("http", "testserver", Name.list, Join(fields, "&"))) :
                    fields \in UNION {[1..n ->
                                          {urlencode(<< <<key, value>> >>) :
                                              key \in {Name.ordering, Name.order_by},
                                              value \in {<<>>,
                                                         <<"k">>,
                                                         <<"-", "-", "k">>,
                                                         <<" ", "k", ",", "i", "d">>,
                                                         <<"i", "d", ",", "z", ",", "-", "k">>,
                                                         <<"z">>}}] :
                                      n \in 0..MaxParams}}
    /\ setup \in {[filter_fields |-> <<>>, ordering_fields |-> fields,
                    default_ordering |-> default] :
                      fields \in {<<>>, <<Name.k>>, <<Name.k, Name.id>>},
                      default \in {None, Some(<<>>), Some(<<"-", "i", "d">>)}}
    /\ out = None
    /\ log = <<>>

\* QueryParamExtractor.extract_ordering(self.request, self.ordering_fields,
\* self.default_ordering)
ExtractOrdering ==
    /\ phase = "start"
    /\ out' = Some([ordering_list |-> extract_ordering(url[1].query, setup.ordering_fields,
                                                       setup.default_ordering)])
    /\ phase' = "answered"
    /\ UNCHANGED <<table, config, response, fwd, bwd, stable, nwrites, sent, lo,
                   url, setup, log>>

SpecExtract == InitExtract /\ [][ExtractOrdering]_vars

(***************************************************************************)
(* QueryParamExtractor.extract_filters and BaseQueryBuilder.apply_filters  *)
(* for fields declared with the types str/text, int/integer/id and         *)
(* bool/boolean.  A conversion result is [ok, val]; ok = FALSE stands for  *)
(* the ValueError or TypeError the converter raises.                       *)
(***************************************************************************)
\* x.lower() on ASCII text
Lower(x) ==
    [i \in 1..Len(x) |->
        IF \E j \in 1..26 : UpperChars[j] = x[i]
        THEN LowerChars[CHOOSE j \in 1..26 : UpperChars[j] = x[i]]
        ELSE x[i]]

\* FILTER_TYPES.get(field_type, str)(x)
Converter(field_type, x) ==
    IF field_type \in {"int", "integer", "id"} THEN int(x)
    ELSE IF field_type \in {"bool", "boolean"}
    THEN [ok |-> TRUE,
          val |-> Lower(x) \in {<<"t", "r", "u", "e">>, <<"1">>, <<"y", "e", "s">>,
                                <<"o", "n">>}]
    ELSE [ok |-> TRUE, val |-> x]

FilterOperators ==
    << <<"g", "t">>, <<"g", "t", "e">>, <<"l", "t">>, <<"l", "t", "e">>, <<"n", "e">>,
       Name.isin, <<"l", "i", "k", "e">>, <<"i", "l", "i", "k", "e">> >>

\* f"{field_name}__{operator}"
OperatorKey(field_name, operator) == field_name \o <<"_", "_">> \o operator

\* f"filter[{field_name}]"
BracketKey(field_name) ==
    <<"f", "i", "l", "t", "e", "r", "[">> \o field_name \o <<"]">>

\* the parameters extract_filters reads, in order, from the i-th field on:
\* for each field the plain one (operator None), then one for each operator
RECURSIVE AllLookups(_, _, _)
AllLookups(query, filter_fields, i) ==
    IF i > Len(filter_fields) THEN <<>>
    ELSE LET field_name == filter_fields[i][1]
             field_type == filter_fields[i][2]
         IN  <<[key |-> field_name,
                value |-> Or(QueryParamsGet(query, field_name),
                             QueryParamsGet(query, BracketKey(field_name))),
                field_type |-> field_type,
                operator |-> None]>>
             \o [n \in 1..Len(FilterOperators) |->
                    [key |-> OperatorKey(field_name, FilterOperators[n]),
                     value |-> QueryParamsGet(query,
                                              OperatorKey(field_name, FilterOperators[n])),
                     field_type |-> field_type,
                     operator |-> Some(FilterOperators[n])]]
             \o AllLookups(query, filter_fields, i + 1)

\* the conversion of one supplied value; the value of an in operator is
\* [converter(v.strip()) for v in operator_value.split(",")]
Converted(lookup) ==
    IF lookup.operator = Some(Name.isin)
    THEN LET parts == Split(lookup.value[1], ",")
         IN  [ok |-> \A n \in 1..Len(parts) :
                        Converter(lookup.field_type, Strip(parts[n])).ok,
              val |-> [n \in 1..Len(parts) |->
                          Converter(lookup.field_type, Strip(parts[n])).val]]
    ELSE Converter(lookup.field_type, lookup.value[1])

\* extract_filters over the supplied values: the first conversion that
\* raises ends the call with ValueError naming its key
FiltersFrom(supplied) ==
    LET failed == {n \in 1..Len(supplied) : ~Converted(supplied[n]).ok}
    IN  IF failed # {}
        THEN [ok |-> FALSE,
              field |-> Some(supplied[CHOOSE n \in failed : \A m \in failed : n <= m].key),
              params |-> <<>>]
        ELSE [ok |-> TRUE,
              field |-> None,
              params |-> [n \in 1..Len(supplied) |->
                             <<supplied[n].key, Converted(supplied[n]).val>>]]

\* QueryParamExtractor.extract_filters
extract_filters(query, filter_fields) ==
    FiltersFrom(SelectSeq(AllLookups(query, filter_fields, 1),
                          LAMBDA lookup : lookup.value # None))

\* the index of the first "__" of key, 0 when there is none
Dunder(key) ==
    LET at == {i \in 1..(Len(key) - 1) : key[i] = "_" /\ key[i + 1] = "_"}
    IN  IF at = {} THEN 0 ELSE CHOOSE i \in at : \A j \in at : i <= j

\* the field a filter key names: key.split("__", 1)[0], or the key
KeyField(key) == IF Dunder(key) = 0 THEN key ELSE SubSeq(key, 1, Dunder(key) - 1)

\* BaseQueryBuilder.apply_filters: the WHERE conditions it adds to the
\* statement, with the operator of key.split("__", 1) or "eq" for a plain
\* key; keys of fields the model lacks are skipped
apply_filters(filter_params) ==
    LET known == SelectSeq(filter_params, LAMBDA item : hasattr(KeyField(item[1])))
    IN  [n \in 1..Len(known) |->
            [field |-> KeyField(known[n][1]),
             operator |-> IF Dunder(known[n][1]) = 0 THEN <<"e", "q">>
                          ELSE SubSeq(known[n][1], Dunder(known[n][1]) + 2,
                                      Len(known[n][1])),
             value |-> known[n][2]]]

MaxFilterParams == 2

\* a request with up to MaxFilterParams filter parameters (valid and invalid
\* integers, a blank value, boolean words and other words, the bracketed
\* form, operator forms, in lists, a field the model does not have), and the
\* filter_fields of the paginator
InitFilters ==
    /\ table = {}
    /\ page_size = 1
    /\ offset_cutoff = 1
    /\ ordering = DescendingId
    /\ InitClient
    /\ stable = {}
    /\ nwrites = 0
    /\ sent = None
    /\ lo = NoLimitOffset
    /\ url \in {Some(Url("http", "testserver", Name.list, Join(fields, "&"))) :
                    fields \in UNION {[1..n ->
                        {urlencode(<< <<key, value>> >>) :
                            <<key, value>> \in
                                {<<Name.k, <<"8">>>>, <<Name.k, <<"x">>>>, <<Name.k, <<>>>>,
                                 <<Name.k, <<"O", "n">>>>,
                                 <<Name.k, <<"m", "a", "y", "b", "e">>>>,
                                 <<BracketKey(Name.k), <<"9">>>>,
                                 <<OperatorKey(Name.k, <<"g", "t">>), <<"8">>>>,
                                 <<OperatorKey(Name.k, <<"l", "t", "e">>), <<"x">>>>,
                                 <<OperatorKey(Name.k, Name.isin), <<"8", ",", " ", "9">>>>,
                                 <<OperatorKey(Name.k, Name.isin), <<"8", ",", "x">>>>,
                                 <<Name.z, <<"3">>>>,
                                 <<OperatorKey(Name.z, <<"n", "e">>), <<"y">>>>}}] :
                        n \in 0..MaxFilterParams}}
    /\ setup \in {[filter_fields |-> fields, ordering_fields |-> <<>>,
                    default_ordering |-> None] :
                      fields \in {<<>>,
                                  << <<Name.k, "int">> >>,
                                  << <<Name.k, "boolean">> >>,
                                  << <<Name.k, "str">> >>,
                                  << <<Name.z, "int">>, <<Name.k, "id">> >>}}
    /\ out = None
    /\ log = <<>>

\* _build_data_stmt up to the filters: extract_filters, then apply_filters
\* when it did not raise
ExtractFilters ==
    /\ phase = "start"
    /\ out' = Some([filters |-> extract_filters(url[1].query, setup.filter_fields),
                    where |-> apply_filters(
                                  extract_filters(url[1].query, setup.filter_fields).params)])
    /\ phase' = "answered"
    /\ UNCHANGED <<table, config, response, fwd, bwd, stable, nwrites, sent, lo,
                   url, setup, log>>

SpecFilters == InitFilters /\ [][ExtractFilters]_vars

(***************************************************************************)
(* One paginator call with filters, split at its awaits.  log is the list  *)
(* of the queries the session executed, each with its outcome; a query may *)
(* fail in the database.  out is what the caller gets: the exception       *)
(* raised or the response.                                                 *)
(***************************************************************************)
\* the rows a statement with the WHERE conditions of apply_filters and
\* apply_search selects: field == value, field > value, ... on the integer
\* columns, and or_(field.ilike(f"%{search_query}%"), ...) on the text column
\* (a search text without the wildcards % and _)
RowsWhere(rows, conditions) ==
    {r \in rows :
        \A c \in 1..Len(conditions) :
            LET x == IF conditions[c].field = Name.id THEN r.id ELSE r.k
                op == conditions[c].operator
                v == conditions[c].value
            IN  IF op = <<"e", "q">> THEN x = v
                ELSE IF op = <<"g", "t">> THEN x > v
                ELSE IF op = <<"g", "t", "e">> THEN x >= v
                ELSE IF op = <<"l", "t">> THEN x < v
                ELSE IF op = <<"l", "t", "e">> THEN x <= v
                ELSE IF op = <<"n", "e">> THEN x # v
                ELSE IF op = Name.isin THEN x \in Range(v)
                ELSE IF op = Name.search
                THEN \E i \in 0..(Len(r.name) - Len(v)) :
                        Lower(SubSeq(r.name, i + 1, i + Len(v))) = Lower(v)
                ELSE FALSE}

\* LIKE and ILIKE on an integer column with an integer parameter, and the
\* ILIKE of a search on an integer column: the database rejects the statement
Executable(conditions) ==
    \A c \in 1..Len(conditions) :
        /\ conditions[c].operator \notin {<<"l", "i", "k", "e">>, <<"i", "l", "i", "k", "e">>}
        /\ conditions[c].operator = Name.search => conditions[c].field = <<Name.name>>

\* what the caller gets when the call raises
Raised(mode, error) == Some([mode |-> mode, error |-> Some(error), response |-> None])

\* a statement that is executed before the filters are extracted
OutcomeQueryFirst(filters, query, db_ok) ==
    [error |-> IF ~db_ok THEN Some("database")
               ELSE IF ~filters.ok THEN Some("filter") ELSE None,
     executed |-> <<[query |-> query, ok |-> db_ok]>>]

\* a statement that is executed a second time when its execution failed
OutcomeRetrying(filters, query, db_ok) ==
    IF ~filters.ok THEN [error |-> Some("filter"), executed |-> <<>>]
    ELSE [error |-> None,
          executed |-> IF db_ok THEN <<[query |-> query, ok |-> TRUE]>>
                       ELSE <<[query |-> query, ok |-> FALSE], [query |-> query, ok |-> TRUE]>>]

\* a statement built with extract_filters and then executed: the ValueError
\* of extract_filters is raised before the session is used
Outcome(filters, query, db_ok) ==
    IF ~filters.ok THEN [error |-> Some("filter"), executed |-> <<>>]
    ELSE [error |-> IF db_ok THEN None ELSE Some("database"),
          executed |-> <<[query |-> query, ok |-> db_ok]>>]

\* hasattr(self.model, field_name) for every field of the ordering, lines
\* 232-254
HasOrderingFields(ordering_tuple) ==
    \A i \in 1..Len(ordering_tuple) : ordering_tuple[i].field \in {"id", "k"}

\* a dataset of three rows, a paginator with filter_fields, a request with
\* filter parameters and, for the cursor paginator, no cursor or a forward or
\* a reverse cursor at position IdBase + 2
InitCalls ==
    /\ table \in {t \in Tables : Cardinality(t) = 3}
    /\ page_size = 1
    /\ offset_cutoff = MaxCutoff
    /\ ordering \in {DescendingId, <<Directive(FALSE, "k")>>, <<Directive(TRUE, "z")>>}
    /\ InitClient
    /\ stable = {}
    /\ nwrites = 0
    /\ sent \in {None,
                  Some(query_params_get(
                           _encode_cursor(Cursor(0, FALSE, Some(str(IdBase + 2)))))),
                  Some(query_params_get(
                           _encode_cursor(Cursor(0, TRUE, Some(str(IdBase + 2))))))}
    /\ lo = [NoLimitOffset EXCEPT !.built = TRUE, !.asked_limit = 2, !.limit = 2,
                                  !.max_limit = MaxLimit]
    /\ url \in {Some(Url("http", "testserver", Name.list, query)) :
                    query \in
                      {<<>>,
                       urlencode(<< <<Name.k, str(IdBase + 1)>> >>),
                       urlencode(<< <<Name.k, <<"x">>>> >>),
                       urlencode(<< <<OperatorKey(Name.k, <<"g", "t", "e">>), str(IdBase + 1)>>,
                                    <<OperatorKey(Name.id, Name.isin),
                                      str(IdBase + 1) \o <<",">> \o str(IdBase + 3)>> >>),
                       urlencode(<< <<OperatorKey(Name.id, Name.isin), <<"8", ",", "x">>>> >>),
                       urlencode(<< <<OperatorKey(Name.k, <<"l", "i", "k", "e">>), <<"8">>>> >>),
                       urlencode(<< <<Name.z, <<"y">>>> >>)}}
    /\ setup \in {[filter_fields |-> fields, ordering_fields |-> <<>>,
                    default_ordering |-> None] :
                      fields \in {<<>>,
                                  << <<Name.k, "int">>, <<Name.id, "id">> >>,
                                  << <<Name.k, "int">>, <<Name.z, "int">> >>}}
    /\ out = None
    /\ log = <<>>

\* LimitOffsetPaginator.paginate up to its first await: _get_total_count
CountStep(db_ok) ==
    LET filters == extract_filters(url[1].query, setup.filter_fields)
        where == apply_filters(filters.params)
        result == Outcome(filters, "count", db_ok /\ Executable(where))
    IN  /\ phase = "start"
        /\ sent = None
        /\ log' = log \o result.executed
        /\ IF result.error = None
           THEN /\ lo' = [lo EXCEPT !.total_count = _get_total_count(RowsWhere(table, where))]
                /\ phase' = "counted"
                /\ out' = out
           ELSE /\ out' = Raised("limit_offset", result.error[1])
                /\ phase' = "failed"
                /\ lo' = lo
        /\ UNCHANGED <<table, config, response, fwd, bwd, stable, nwrites, sent, url, setup>>

\* LimitOffsetPaginator.paginate after the count, and the response of
\* get_paginated_response
DataStep(db_ok) ==
    LET filters == extract_filters(url[1].query, setup.filter_fields)
        where == apply_filters(filters.params)
        result == Outcome(filters, "data", db_ok /\ Executable(where))
    IN  /\ phase = "counted"
        /\ log' = log \o result.executed
        /\ IF result.error = None
           THEN /\ lo' = [lo EXCEPT !.paginated = TRUE,
                                    !.data = LimitOffsetData(RowsWhere(table, where),
                                                             DescendingId, lo.offset, lo.limit)]
                /\ out' = Some([mode |-> "limit_offset",
                                error |-> None,
                                response |-> Some(LimitOffsetResponse(
                                                      url[1], lo.limit, lo.offset, lo'.data,
                                                      lo.total_count, TRUE))])
                /\ phase' = "answered"
           ELSE /\ out' = Raised("limit_offset", result.error[1])
                /\ phase' = "failed"
                /\ lo' = lo
        /\ UNCHANGED <<table, config, response, fwd, bwd, stable, nwrites, sent, url, setup>>

\* CursorPaginator.get_paginated_response for the request with the cursor
\* parameter sent
CursorCall(db_ok) ==
    LET filters == extract_filters(url[1].query, setup.filter_fields)
        where == apply_filters(filters.params)
        result == Outcome(filters, "data", db_ok /\ Executable(where))
    IN  /\ phase = "start"
        /\ param' = sent
        /\ nreq' = nreq + 1
        /\ IF ~filters.ok
           THEN /\ out' = Raised("cursor", "filter")
                /\ phase' = "failed"
                /\ UNCHANGED <<log, pager, next_link, previous_link>>
           ELSE IF ~HasOrderingFields(ordering)
           THEN /\ out' = Raised("cursor", "ordering_field")
                /\ phase' = "failed"
                /\ UNCHANGED <<log, pager, next_link, previous_link>>
           ELSE /\ log' = log \o result.executed
                /\ IF result.error = None
                   THEN /\ pager' = paginate(sent, RowsWhere(table, where), page_size,
                                             ordering, offset_cutoff)
                        /\ next_link' = get_next_link(pager', page_size, ordering)
                        /\ previous_link' = get_previous_link(pager', page_size, ordering)
                        /\ out' = Some([mode |-> "cursor",
                                        error |-> None,
                                        response |-> Some([data |-> pager'.page,
                                                           next |-> next_link',
                                                           previous |-> previous_link'])])
                        /\ phase' = "answered"
                   ELSE /\ out' = Raised("cursor", result.error[1])
                        /\ phase' = "failed"
                        /\ UNCHANGED <<pager, next_link, previous_link>>
        /\ UNCHANGED <<table, config, fwd, bwd, stable, nwrites, sent, lo, url, setup>>

NextCalls ==
    \/ \E db_ok \in BOOLEAN : CountStep(db_ok)
    \/ \E db_ok \in BOOLEAN : DataStep(db_ok)
    \/ \E db_ok \in BOOLEAN : CursorCall(db_ok)

SpecCalls == InitCalls /\ [][NextCalls]_vars

(***************************************************************************)
(* The statements of BasePaginator._build_data_stmt and _get_total_count.  *)
(* A statement is [ok, where, order_by]: the WHERE conditions in the order *)
(* they were added and the ORDER BY terms; ok is FALSE when                *)
(* extract_filters raised.  The paginator's setup has, beside the fields   *)
(* of the other specifications, additional_filters (conditions),           *)
(* search_query and search_fields.                                         *)
(***************************************************************************)
\* search = self.search_query or extract_search(request, search_fields),
\* then apply_search: the condition it adds, over the search fields the
\* model has
SearchConditions(query, search_query, search_fields) ==
    LET search == Or(search_query,
                     Or(QueryParamsGet(query, Name.search), QueryParamsGet(query, Name.q)))
        columns == SelectSeq(search_fields, hasattr)
    IN  IF ~Truthy(search) \/ columns = <<>> THEN <<>>
        ELSE <<[field |-> columns, operator |-> Name.search, value |-> search[1]]>>

\* BasePaginator._build_data_stmt
_build_data_stmt(query, paginator) ==
    [ok |-> extract_filters(query, paginator.filter_fields).ok,
     where |-> paginator.additional_filters
               \o apply_filters(extract_filters(query, paginator.filter_fields).params)
               \o SearchConditions(query, paginator.search_query, paginator.search_fields),
     order_by |-> apply_ordering(extract_ordering(query, paginator.ordering_fields,
                                                  paginator.default_ordering))]

\* a count statement without the search condition
CountStmtNoSearch(query, paginator) ==
    [ok |-> extract_filters(query, paginator.filter_fields).ok,
     where |-> paginator.additional_filters
               \o apply_filters(extract_filters(query, paginator.filter_fields).params),
     order_by |-> <<>>]

\* BasePaginator._get_total_count, lines 397-416: the count statement
CountStmt(query, paginator) ==
    [ok |-> extract_filters(query, paginator.filter_fields).ok,
     where |-> paginator.additional_filters
               \o apply_filters(extract_filters(query, paginator.filter_fields).params)
               \o SearchConditions(query, paginator.search_query, paginator.search_fields),
     order_by |-> <<>>]

\* a table of rows with names, a limit-offset paginator built with
\* additional_filters, filter_fields, search_query, search_fields and
\* ordering_fields, and a request with filter, search and ordering parameters
InitStmts ==
    /\ table \in SUBSET {[id |-> IdBase + 1, k |-> IdBase + 1, name |-> <<"A", "b">>],
                         [id |-> IdBase + 2, k |-> IdBase + 1, name |-> <<"b", "o">>],
                         [id |-> IdBase + 3, k |-> IdBase + 2, name |-> <<"a">>],
                         [id |-> IdBase + 4, k |-> IdBase + 2, name |-> <<"c", "a", "B">>]}
    /\ page_size = 1
    /\ offset_cutoff = 1
    /\ ordering = DescendingId
    /\ InitClient
    /\ stable = {}
    /\ nwrites = 0
    /\ sent = None
    /\ lo \in {[NoLimitOffset EXCEPT !.built = TRUE, !.asked_limit = 2, !.limit = 2,
                                     !.asked_offset = o, !.offset = o,
                                     !.max_limit = MaxLimit] : o \in 0..1}
    /\ url \in {Some(Url("http", "testserver", Name.list, query)) :
                    query \in
                      {<<>>,
                       urlencode(<< <<Name.q, <<"a">>>> >>),
                       urlencode(<< <<Name.search, <<"B">>>>, <<Name.q, <<"a">>>> >>),
                       urlencode(<< <<Name.search, <<>>>>, <<Name.q, <<"o">>>> >>),
                       urlencode(<< <<Name.k, str(IdBase + 1)>> >>),
                       urlencode(<< <<OperatorKey(Name.id, <<"g", "t">>), str(IdBase + 1)>>,
                                    <<Name.q, <<"b">>>>,
                                    <<Name.ordering, <<"k">>>> >>),
                       urlencode(<< <<Name.k, <<"x">>>>, <<Name.q, <<"a">>>> >>)}}
    /\ setup \in {[filter_fields |-> filter_fields,
                    ordering_fields |-> <<Name.k>>,
                    default_ordering |-> Some(<<"-", "i", "d">>),
                    additional_filters |-> additional_filters,
                    search_query |-> search_query,
                    search_fields |-> search_fields] :
                      filter_fields \in {<<>>, << <<Name.k, "int">>, <<Name.id, "id">> >>},
                      additional_filters \in
                          {<<>>, <<[field |-> Name.id, operator |-> <<"n", "e">>,
                                    value |-> IdBase + 3]>>},
                      search_query \in {None, Some(<<>>), Some(<<"b">>)},
                      search_fields \in {<<>>, <<Name.name>>, <<Name.z, Name.name>>, <<Name.k>>}}
    /\ out = None
    /\ log = <<>>

\* LimitOffsetPaginator.paginate: the count statement is executed, then the
\* data statement with OFFSET and LIMIT; out keeps the two statements
PaginateStmts ==
    LET count_stmt == CountStmt(url[1].query, setup)
        data_stmt == _build_data_stmt(url[1].query, setup)
    IN  /\ phase = "start"
        /\ IF ~count_stmt.ok
           THEN /\ out' = Raised("limit_offset", "filter")
                /\ phase' = "failed"
                /\ lo' = lo
           ELSE IF ~Executable(count_stmt.where) \/ ~Executable(data_stmt.where)
           THEN /\ out' = Raised("limit_offset", "database")
                /\ phase' = "failed"
                /\ lo' = lo
           ELSE /\ lo' = [lo EXCEPT
                            !.total_count = _get_total_count(RowsWhere(table, count_stmt.where)),
                            !.paginated = TRUE,
                            !.data = LimitOffsetData(RowsWhere(table, data_stmt.where),
                                                     data_stmt.order_by, lo.offset, lo.limit)]
                /\ out' = Some([mode |-> "limit_offset", error |-> None, response |-> None,
                                count_stmt |-> count_stmt, data_stmt |-> data_stmt])
                /\ phase' = "answered"
        /\ UNCHANGED <<table, config, response, fwd, bwd, stable, nwrites, sent, url, setup, log>>

SpecStmts == InitStmts /\ [][PaginateStmts]_vars

\* CursorPaginator._extract_cursor_from_url for a link, given by the token
\* _encode_cursor wrote unescaped after "cursor=" into its query string: None
\* for no link, else the first value parse_qs (which drops blank values and
\* unquotes the others) has for the cursor parameter
_extract_cursor_from_url(link) ==
    IF link = None THEN None
    ELSE LET query_dict == SelectSeq(parse_qs(Name.cursor \o <<"=">> \o link[1]),
                                     LAMBDA kv : kv[2] # <<>>)
             cursor_list == ValuesOf(query_dict, Name.cursor)
         IN  IF cursor_list = <<>> THEN None ELSE Some(cursor_list[1])

(***************************************************************************)
(* A client walks the links of the limit-offset responses: forward from    *)
(* offset 0 along the next links, or backward from any offset along the    *)
(* previous links.  Every request builds a LimitOffsetPaginator from the   *)
(* limit and offset parameters of its URL; fwd keeps the offset and the    *)
(* rows of every response, in the order received.                          *)
(***************************************************************************)
\* a table, the max_limit of the route, and the URL of the first request
InitTraverseLO ==
    /\ \E n \in 0..MaxTotal : table = {PoolRow(i) : i \in 1..n}
    /\ page_size = 1
    /\ offset_cutoff = 1
    /\ ordering = DescendingId
    /\ InitClient
    /\ stable = {}
    /\ nwrites = 0
    /\ sent = None
    /\ \E max_limit \in 1..MaxLimit : lo = [NoLimitOffset EXCEPT !.max_limit = max_limit]
    /\ \E limit \in 1..MaxLimit, offset \in 0..MaxRaw :
          url = Some(Url("http", "testserver", Name.list,
                         urlencode(<< <<Name.limit, str(limit)>>,
                                      <<Name.offset, str(offset)>> >>)))
    /\ setup = [filter_fields |-> <<>>, ordering_fields |-> <<>>,
                default_ordering |-> None]
    /\ out = None
    /\ log = <<>>

\* the route builds the paginator from the limit and offset parameters of
\* request_url, and get_paginated_response answers
ServeLO(request_url, limit, offset) ==
    /\ nreq < MaxRequests
    /\ url' = Some(request_url)
    /\ lo' = [built |-> TRUE, asked_limit |-> limit, asked_offset |-> offset,
              limit |-> ClampLimit(limit, lo.max_limit),
              offset |-> ClampOffset(offset),
              max_limit |-> lo.max_limit,
              paginated |-> TRUE,
              total_count |-> _get_total_count(table),
              data |-> LimitOffsetData(table, ordering, ClampOffset(offset),
                                       ClampLimit(limit, lo.max_limit))]
    /\ out' = Some(LimitOffsetResponse(request_url, lo'.limit, lo'.offset, lo'.data,
                                       lo'.total_count, TRUE))
    /\ fwd' = Append(fwd, [offset |-> lo'.offset, data |-> lo'.data])
    /\ nreq' = nreq + 1
    /\ UNCHANGED <<table, config, param, pager, next_link, previous_link, bwd, stable,
                   nwrites, sent, setup, log>>

\* the first request (a walk forward starts at offset 0), then requests for
\* the next link of the last response, or for its previous link
NextTraverseLO ==
    \/ \E walk \in {"forward", "backward"} :
          /\ phase = "start"
          /\ walk = "forward" => QueryParamsGet(url[1].query, Name.offset) = Some(<<"0">>)
          /\ phase' = walk
          /\ ServeLO(url[1], int(QueryParamsGet(url[1].query, Name.limit)[1]).val,
                     int(QueryParamsGet(url[1].query, Name.offset)[1]).val)
    \/ /\ phase = "forward"
       /\ out[1].next # None
       /\ phase' = phase
       /\ ServeLO(out[1].next[1],
                  int(QueryParamsGet(out[1].next[1].query, Name.limit)[1]).val,
                  int(QueryParamsGet(out[1].next[1].query, Name.offset)[1]).val)
    \/ /\ phase = "backward"
       /\ out[1].previous # None
       /\ phase' = phase
       /\ ServeLO(out[1].previous[1],
                  int(QueryParamsGet(out[1].previous[1].query, Name.limit)[1]).val,
                  int(QueryParamsGet(out[1].previous[1].query, Name.offset)[1]).val)

\* a request is due: the first one, or one for the link the walk follows
RequestDue ==
    \/ phase = "start"
    \/ phase = "forward" /\ out[1].next # None
    \/ phase = "backward" /\ out[1].previous # None

\* the client goes on as long as a request is due; the requests are the steps
\* of NextTraverseLO that advance nreq, and one is enabled whenever one is due
SpecTraverseLO ==
    /\ InitTraverseLO
    /\ [][NextTraverseLO]_vars
    /\ WF_nreq(RequestDue /\ nreq < MaxRequests /\ nreq' = nreq + 1)

\* the rows of the table in the paginator's natural order
Natural == SortRows(table, ordering)

\* the position key of a row
Key(row) == getattr(row, ordering[1].field)

StrictlyDescendingId(s) == \A i \in 1..(Len(s) - 1) : s[i].id > s[i + 1].id

RowsOf(s) == {s[i] : i \in 1..Len(s)}

\* C1: with ordering ('-id',) and no writes, following next links from a
\* request without a cursor returns every page non-empty and in strictly
\* descending id order across pages, and when has_next is false the pages
\* together are exactly the rows of the table, each once.
C1_ForwardComplete ==
    (ordering = DescendingId /\ phase # "start") =>
        /\ StrictlyDescendingId(Concat(fwd))
        /\ \A i \in 2..Len(fwd) : fwd[i] # <<>>
        /\ \A i \in 1..Len(fwd) : Len(fwd[i]) <= page_size
        /\ ForwardDone =>
              /\ RowsOf(Concat(fwd)) = table
              /\ Len(Concat(fwd)) = Cardinality(table)

C1_Witness ==
    /\ ordering = DescendingId
    /\ phase = "forward"
    /\ ~pager.has_next
    /\ Len(fwd) >= 3
    /\ Cardinality(table) >= 5
    /\ page_size = 2

\* C2: with ordering ('-id',) and no writes, following previous links from
\* the last page of the forward traversal visits the forward pages in reverse:
\* the k-th page visited is the k-th-from-last forward page, and the chain
\* ends (has_previous false) exactly on the first page.
C2_BackwardMirrors ==
    (ordering = DescendingId /\ phase = "backward") =>
        /\ Len(bwd) <= Len(fwd)
        /\ \A k \in 1..Len(bwd) : bwd[k] = fwd[Len(fwd) + 1 - k]
        /\ (~pager.has_previous <=> Len(bwd) = Len(fwd))

C2_Witness ==
    /\ ordering = DescendingId
    /\ phase = "backward"
    /\ ~pager.has_previous
    /\ Len(bwd) >= 3
    /\ Cardinality(table) >= 5

\* C4: with any tie groups and no writes, no page of a forward traversal
\* contains a row already returned, and when has_next is false every row has
\* been returned exactly once.
C4_ForwardProgress ==
    phase # "start" =>
        /\ NoDuplicates(Concat(fwd))
        /\ ForwardDone => RowsOf(Concat(fwd)) = table

\* the first page and its peek row share one position-key value
FirstPageTied ==
    /\ Len(Natural) > page_size
    /\ \A i \in 1..page_size : Key(Natural[i]) = Key(Natural[page_size + 1])

C3_StableUnderWrites ==
    phase = "forward" =>
        /\ NoDuplicates(Concat(fwd))
        /\ StrictlyDescendingId(Concat(fwd))
        /\ ~pager.has_next => stable \subseteq RowsOf(Concat(fwd))

C3_Witness ==
    /\ phase = "forward"
    /\ ~pager.has_next
    /\ nwrites = MaxWrites
    /\ Len(fwd) >= 2
    /\ stable # {}
    /\ stable # table
    /\ RowsOf(Concat(fwd)) \ table # {}
    /\ table \ RowsOf(Concat(fwd)) # {}

\* C6: for every Cursor c with an offset of at most offset_cutoff (larger
\* offsets are clamped, see C8), either reverse flag and any or no position,
\* the request of the link that encodes c decodes a Cursor equal to c.
C6_RoundTrip ==
    (phase = "answered" /\ sent # None /\ sent[1].offset <= offset_cutoff) =>
        pager.cursor = sent

\* the text is canonical base64: whole groups of four characters of the
\* alphabet, '=' only as the last or the last two characters
ValidBase64(s) ==
    /\ Len(s) % 4 = 0
    /\ \A i \in 1..Len(s) : IsB64(s[i]) \/ s[i] = "="
    /\ \A i \in 1..Len(s) :
          s[i] = "=" => (i = Len(s) \/ (i = Len(s) - 1 /\ s[Len(s)] = "="))

\* the value of the cursor parameter is not valid base64, does not decode to
\* ASCII, or carries an o or r field that is no integer
Malformed(token) ==
    \/ ~ValidBase64(token)
    \/ ~b64decode(token).ok
    \/ ~int(TokensGet(parse_qs(b64decode(token).text), <<"o">>, <<"0">>)).ok
    \/ ~int(TokensGet(parse_qs(b64decode(token).text), <<"r">>, <<"0">>)).ok

\* the response to a request without a cursor parameter
FirstResponse == paginate(None, table, page_size, ordering, offset_cutoff)

\* C7: a request with a malformed cursor parameter is no error and gets
\* exactly the page of a request without a cursor: offset 0, no position
\* filter, forward, has_previous false.
C7_MalformedIsNoCursor ==
    (phase = "answered" /\ sent = None /\ Malformed(param[1])) =>
        /\ ~pager.error
        /\ pager.offset = 0
        /\ pager.page = FirstResponse.page
        /\ pager.has_next = FirstResponse.has_next
        /\ ~pager.has_previous

\* C8: the offset of every decoded Cursor, and the OFFSET of the data query
\* of every request, is between 0 and offset_cutoff.
C8_OffsetBound ==
    phase = "answered" =>
        /\ 0 <= pager.offset /\ pager.offset <= offset_cutoff
        /\ pager.cursor # None =>
              /\ 0 <= pager.cursor[1].offset
              /\ pager.cursor[1].offset <= offset_cutoff
              /\ pager.offset = pager.cursor[1].offset

C8_Witness ==
    /\ phase = "answered"
    /\ sent = None
    /\ b64decode(param[1]).text = <<"o", "=">> \o str(MaxOffset + 1)
    /\ offset_cutoff < MaxOffset
    /\ pager.cursor # None
    /\ pager.offset = offset_cutoff

\* C9, for every offset: paginate() returns at most limit rows and
\* offset + returned_count <= total_count, whatever the offset.
C9_PageWithinTotal ==
    lo.paginated =>
        /\ Len(lo.data) <= lo.limit
        /\ lo.offset + Len(lo.data) <= lo.total_count

\* C9: paginate() returns at most limit rows; when the offset is at most
\* total_count, offset + returned_count <= total_count; when the offset is
\* total_count or more, no row is returned.
C9_PageBound ==
    lo.paginated =>
        /\ Len(lo.data) <= lo.limit
        /\ lo.offset <= lo.total_count => lo.offset + Len(lo.data) <= lo.total_count
        /\ lo.offset >= lo.total_count => lo.data = <<>>

C9_Witness ==
    /\ lo.paginated
    /\ lo.offset > 0
    /\ lo.limit > 1
    /\ Len(lo.data) = lo.limit
    /\ lo.offset + Len(lo.data) = lo.total_count

\* C10: whatever integers limit and offset the paginator is built with, and
\* whatever max_limit >= 1, the stored limit is between 1 and max_limit and
\* the stored offset is at least 0.
C10_Clamped ==
    lo.built =>
        /\ 1 <= lo.limit /\ lo.limit <= lo.max_limit
        /\ lo.offset >= 0
        /\ lo.offset = Max(0, lo.asked_offset)

C10_Witness ==
    /\ lo.built
    /\ lo.asked_limit < 1
    /\ lo.asked_offset < 0
    /\ lo.max_limit > 1
    /\ lo.limit = 1
    /\ lo.offset = 0

\* C11, for every total_count: meta.current_page is offset // limit + 1.
C11_CurrentPageAlways ==
    (out # None /\ out[1].meta # None) =>
        out[1].meta[1].current_page = (lo.offset \div lo.limit) + 1

\* C11: meta.current_page is offset // limit + 1 of the clamped limit and
\* offset when total_count > 0, and 1 when total_count = 0.
C11_CurrentPage ==
    (out # None /\ out[1].meta # None) =>
        out[1].meta[1].current_page =
            IF lo.total_count > 0 THEN (lo.offset \div lo.limit) + 1 ELSE 1

C11_Witness ==
    /\ out # None
    /\ out[1].meta # None
    /\ lo.total_count > 0
    /\ lo.limit = 2
    /\ lo.offset = 4
    /\ out[1].meta[1].current_page = 3

\* the value a link gives the query parameter key (None: not exactly one)
LinkParam(link, key) ==
    IF Len(ValuesOf(parse_qs(link.query), key)) = 1
    THEN Some(ValuesOf(parse_qs(link.query), key)[1])
    ELSE None

\* C12: has_next is offset + limit < total_count and the next link is there
\* exactly then, with offset + limit; has_previous is offset > 0 and
\* total_count > 0 and the previous link is there exactly then, with
\* max(0, offset - limit); both links carry the clamped limit.
C12_FlagsAndLinks ==
    out # None =>
        /\ out[1].meta # None =>
              /\ out[1].meta[1].has_next = (lo.offset + lo.limit < lo.total_count)
              /\ out[1].meta[1].has_previous = (lo.offset > 0 /\ lo.total_count > 0)
        /\ (out[1].next # None) = (lo.offset + lo.limit < lo.total_count)
        /\ (out[1].previous # None) = (lo.offset > 0 /\ lo.total_count > 0)
        /\ out[1].next # None =>
              /\ LinkParam(out[1].next[1], Name.offset) = Some(str(lo.offset + lo.limit))
              /\ LinkParam(out[1].next[1], Name.limit) = Some(str(lo.limit))
        /\ out[1].previous # None =>
              /\ LinkParam(out[1].previous[1], Name.offset) =
                    Some(str(IF lo.offset > lo.limit THEN lo.offset - lo.limit ELSE 0))
              /\ LinkParam(out[1].previous[1], Name.limit) = Some(str(lo.limit))

C12_Witness ==
    /\ out # None
    /\ out[1].next # None
    /\ out[1].previous # None
    /\ lo.offset = 1
    /\ lo.limit = 2
    /\ lo.asked_limit > lo.max_limit
    /\ url[1].query # <<>>

C14_EffectiveOrdering ==
    out # None =>
        out[1].order_by = IF out[1].reverse THEN _reverse_ordering(ordering) ELSE ordering

\* the request is paged backward
PagedInReverse == pager.cursor # None /\ pager.cursor[1].reverse

\* the cursor of the request carried a position
HasPosition == pager.cursor # None /\ pager.cursor[1].position # None

\* the rows strictly beyond the cursor's position in the direction paged:
\* toward smaller keys when the request walks the position key downward
\* (descending ordering paged forward, ascending ordering paged backward),
\* toward larger keys otherwise; every row when there is no position
Beyond ==
    IF ~HasPosition THEN table
    ELSE IF ordering[1].desc # PagedInReverse
    THEN {r \in table : Key(r) < int(pager.cursor[1].position[1]).val}
    ELSE {r \in table : Key(r) > int(pager.cursor[1].position[1]).val}

\* C15: when the cursor carries a position, paginate() keeps the rows with
\* position key < position if cursor.reverse differs from "the first
\* ordering directive is descending" and those with key > position if they
\* agree, i.e. exactly the rows strictly beyond the position in the direction
\* paged; without a position no row is filtered out.
C15_FilterDirection ==
    (nreq > 0 /\ ~pager.error) =>
        /\ RowsOf(pager.page) \subseteq Beyond
        /\ Len(pager.page) = Min(page_size, Max(0, Cardinality(Beyond) - pager.offset))
        /\ HasPosition /\ ordering[1].desc # PagedInReverse =>
              \A r \in RowsOf(pager.page) : Key(r) < int(pager.cursor[1].position[1]).val
        /\ HasPosition /\ ordering[1].desc = PagedInReverse =>
              \A r \in RowsOf(pager.page) : Key(r) > int(pager.cursor[1].position[1]).val

C15_Witness ==
    /\ nreq > 0
    /\ ~pager.error
    /\ HasPosition
    /\ PagedInReverse
    /\ ~ordering[1].desc
    /\ pager.page # <<>>
    /\ Beyond # table
    /\ Cardinality(Beyond) > Len(pager.page)

\* C16: with F = "the query returned a (page_size+1)-th row" and B = "the
\* cursor carried a position or an offset > 0", an absent or forward cursor
\* gives has_next = F and has_previous = B, a reverse cursor gives
\* has_next = B and has_previous = F; a request without a cursor reports
\* has_previous = false.
C16_Flags ==
    (nreq > 0 /\ ~pager.error) =>
        LET F == Cardinality(Beyond) - pager.offset > page_size
            B == HasPosition \/ pager.offset > 0
        IN  /\ pager.has_next = IF PagedInReverse THEN B ELSE F
            /\ pager.has_previous = IF PagedInReverse THEN F ELSE B
            /\ pager.cursor = None => ~pager.has_previous

C16_Witness ==
    /\ nreq > 0
    /\ ~pager.error
    /\ PagedInReverse
    /\ ~HasPosition
    /\ pager.offset > 0
    /\ pager.has_next
    /\ pager.has_previous
    /\ Cardinality(Beyond) - pager.offset > page_size

\* the keys of the overrides of a _build_url call
OverriddenKeys(params) == {params[i][1] : i \in 1..Len(params)}

\* C17: _build_url returns a URL with the same scheme, host and path in
\* which every overridden key has exactly the new value, or is absent when
\* the override is None, and every other query parameter keeps all its
\* values in order, repeated keys and blank values included.
C17_UrlPreserved ==
    out # None =>
        LET before == parse_qs(url[1].query)
            after == parse_qs(out[1].url.query)
            params == out[1].params
        IN  /\ out[1].url.scheme = url[1].scheme
            /\ out[1].url.netloc = url[1].netloc
            /\ out[1].url.path = url[1].path
            /\ \A i \in 1..Len(params) :
                  ValuesOf(after, params[i][1]) =
                      IF params[i][2] = None THEN <<>> ELSE <<params[i][2][1]>>
            /\ \A key \in (Range(QueryKeys(before)) \cup Range(QueryKeys(after)))
                              \ OverriddenKeys(params) :
                  ValuesOf(after, key) = ValuesOf(before, key)

C17_Witness ==
    /\ out # None
    /\ url[1].query = Join(<< <<"a">>, Name.limit \o <<"=", "5">>, <<"a", "=", "1">> >>, "&")
    /\ out[1].params = << <<Name.limit, Some(<<"2">>)>>, <<Name.offset, Some(<<"4">>)>> >>
    /\ ValuesOf(parse_qs(out[1].url.query), <<"a">>) = << <<>>, <<"1">> >>

\* the i-th smallest element of a set of numbers
Nth(S, i) == CHOOSE n \in S : Cardinality({m \in S : m <= n}) = i

\* the list of the tokens at the indices kept, in request order
Kept(tokens, kept) == [i \in 1..Cardinality(kept) |-> tokens[Nth(kept, i)]]

\* C18, read literally: extract_ordering returns, in request order, exactly
\* the comma-separated tokens of ordering (of order_by when ordering is
\* absent) whose name without the leading '-' is allowed, and
\* [default_ordering] if a default is configured, else the empty list, when
\* no token is left.
C18_LiteralTokens ==
    out # None =>
        LET asked == OrIfPresent(QueryParamsGet(url[1].query, Name.ordering),
                                 QueryParamsGet(url[1].query, Name.order_by))
            tokens == IF asked = None THEN <<>> ELSE Split(asked[1], ",")
            kept == {n \in 1..Len(tokens) :
                        (IF tokens[n] # <<>> /\ tokens[n][1] = "-" THEN Tail(tokens[n])
                         ELSE tokens[n]) \in Range(setup.ordering_fields)}
        IN  out[1].ordering_list =
                IF kept # {} THEN Kept(tokens, kept)
                ELSE IF Truthy(setup.default_ordering) THEN <<setup.default_ordering[1]>>
                ELSE <<>>

\* C18: extract_ordering takes the last ordering parameter when its value is
\* not blank and the last order_by parameter otherwise, and returns, in
\* request order, its comma-separated tokens with surrounding blanks removed
\* whose name without all leading '-' is allowed; when no token is left it
\* returns [default_ordering] if a non-blank default is configured and the
\* empty list otherwise.
C18_Extracted ==
    out # None =>
        LET first == QueryParamsGet(url[1].query, Name.ordering)
            asked == IF first # None /\ first[1] # <<>> THEN first
                     ELSE QueryParamsGet(url[1].query, Name.order_by)
            tokens == IF asked = None THEN <<>>
                      ELSE [n \in 1..Len(Split(asked[1], ",")) |->
                               Strip(Split(asked[1], ",")[n])]
            kept == {n \in 1..Len(tokens) :
                        \E d \in 0..Len(tokens[n]) :
                            /\ \A j \in 1..d : tokens[n][j] = "-"
                            /\ d < Len(tokens[n]) => tokens[n][d + 1] # "-"
                            /\ SubSeq(tokens[n], d + 1, Len(tokens[n]))
                                   \in Range(setup.ordering_fields)}
        IN  out[1].ordering_list =
                IF kept # {} THEN Kept(tokens, kept)
                ELSE IF setup.default_ordering # None /\ setup.default_ordering[1] # <<>>
                THEN <<setup.default_ordering[1]>>
                ELSE <<>>

C18_Witness ==
    /\ out # None
    /\ QueryParamsGet(url[1].query, Name.ordering) = Some(<<"i", "d", ",", "z", ",", "-", "k">>)
    /\ QueryParamsGet(url[1].query, Name.order_by) = Some(<<"z">>)
    /\ setup.ordering_fields = <<Name.k, Name.id>>
    /\ out[1].ordering_list = <<Name.id, <<"-", "k">>>>

\* text is a literal of the declared type
IsLiteral(field_type, text) ==
    IF field_type \in {"int", "integer", "id"}
    THEN LET t == Strip(text)
             digits == IF t # <<>> /\ t[1] \in {"-", "+"} THEN Tail(t) ELSE t
         IN  digits # <<>> /\ \A i \in 1..Len(digits) : IsDigit(digits[i])
    ELSE IF field_type \in {"bool", "boolean"}
    THEN Lower(text) \in {<<"t", "r", "u", "e">>, <<"f", "a", "l", "s", "e">>, <<"1">>,
                          <<"0">>, <<"y", "e", "s">>, <<"n", "o">>, <<"o", "n">>,
                          <<"o", "f", "f">>}
    ELSE TRUE

\* the values the request supplies for a declared field: plain, bracketed,
\* operator form, and the elements of an in list
SuppliedValues(query, field_name) ==
    LET pairs == parse_qs(query)
    IN  {pairs[i][2] : i \in {j \in 1..Len(pairs) :
                                 /\ pairs[j][1] \in {field_name, BracketKey(field_name)}
                                        \cup {OperatorKey(field_name, FilterOperators[n]) :
                                                 n \in 1..Len(FilterOperators)}
                                 /\ pairs[j][1] # OperatorKey(field_name, Name.isin)}}
        \cup UNION {Range(Split(pairs[i][2], ",")) :
                       i \in {j \in 1..Len(pairs) :
                                 pairs[j][1] = OperatorKey(field_name, Name.isin)}}

\* C19: a supplied value of a declared filter field that is no valid literal
\* of the field's type makes extract_filters raise an error naming the
\* field, whereas a filter key naming a field the model does not have is
\* skipped by apply_filters, without an error and without a condition.
C19_InvalidValueRaises ==
    out # None =>
        /\ \A n \in 1..Len(setup.filter_fields) :
              (\E value \in SuppliedValues(url[1].query, setup.filter_fields[n][1]) :
                    ~IsLiteral(setup.filter_fields[n][2], value))
                 => ~out[1].filters.ok
        /\ ~out[1].filters.ok => /\ out[1].filters.field # None
                                 /\ \E n \in 1..Len(setup.filter_fields) :
                                       KeyField(out[1].filters.field[1]) =
                                           setup.filter_fields[n][1]
        /\ \A c \in 1..Len(out[1].where) : hasattr(out[1].where[c].field)

\* C20: a paginator call that fails because a filter value cannot be coerced
\* or, in cursor mode, because an ordering field is absent from the model
\* raises before any query has been executed, and the caller gets no rows,
\* links or metadata; a response is returned only when every query of the
\* call succeeded.
C20_FailBeforeData ==
    out # None =>
        /\ (out[1].error # None /\ out[1].error[1] \in {"filter", "ordering_field"}) =>
              log = <<>>
        /\ out[1].error # None => out[1].response = None
        /\ out[1].response # None =>
              /\ \A i \in 1..Len(log) : log[i].ok
              /\ Len(log) = IF out[1].mode = "cursor" THEN 1 ELSE 2
        /\ (out[1].mode = "cursor" /\ ~HasOrderingFields(ordering)) => log = <<>>

C20_Witness ==
    /\ out # None
    /\ out[1].mode = "cursor"
    /\ out[1].error = Some("ordering_field")
    /\ sent # None
    /\ decode_cursor(sent, offset_cutoff)[1].reverse
    /\ url[1].query # <<>>
    /\ log = <<>>
    /\ pager.page = <<>>

\* C21: the count statement of _get_total_count has exactly the WHERE
\* conditions of the data statement of _build_data_stmt, in the same order
\* (the additional filters, then the filters, then the search), and no
\* ORDER BY; total_count is the number of rows the data statement matches
\* before OFFSET and LIMIT, 0 when it matches none.
C21_CountMirrorsData ==
    (phase = "answered" /\ out # None /\ out[1].error = None) =>
        /\ out[1].count_stmt.where = out[1].data_stmt.where
        /\ out[1].count_stmt.order_by = <<>>
        /\ \E a, f, s \in 0..Len(out[1].data_stmt.where) :
              /\ a + f + s = Len(out[1].data_stmt.where)
              /\ SubSeq(out[1].data_stmt.where, 1, a) = setup.additional_filters
              /\ \A n \in (a + 1)..(a + f) :
                    out[1].data_stmt.where[n].operator # Name.search
              /\ s <= 1
              /\ \A n \in (a + f + 1)..(a + f + s) :
                    out[1].data_stmt.where[n].operator = Name.search
        /\ lo.total_count = Cardinality(RowsWhere(table, out[1].data_stmt.where))
        /\ Len(lo.data) = Min(lo.limit, Max(0, lo.total_count - lo.offset))

\* a response to a request whose statements have an additional filter, a
\* filter and a search condition, matching some rows of the table but not all
C21_Witness ==
    /\ phase = "answered" /\ out # None /\ out[1].error = None
    /\ Len(out[1].count_stmt.where) = 3
    /\ out[1].count_stmt.where[3].operator = Name.search
    /\ out[1].data_stmt.order_by # <<>>
    /\ lo.total_count > 0
    /\ lo.total_count < Cardinality(table)

\* the queries the session executed during the call, by name
QueriesExecuted == [n \in 1..Len(log) |-> log[n].query]

\* C22: a CursorPaginator.get_paginated_response call that returns a response
\* has executed one data query and no count query; a LimitOffsetPaginator
\* call that returns has executed one count query and then one data query;
\* a query that fails is the last query of its call, and the call raises the
\* failure to its caller.
C22_NoRetry ==
    /\ QueriesExecuted \in {<<>>, <<"count">>, <<"count", "data">>, <<"data">>}
    /\ \A n \in 1..Len(log) : ~log[n].ok => n = Len(log)
    /\ (log # <<>> /\ ~log[Len(log)].ok) =>
           out # None /\ out[1].error = Some("database") /\ out[1].response = None
    /\ (out # None /\ out[1].error = Some("database")) =>
           log # <<>> /\ ~log[Len(log)].ok
    /\ (out # None /\ out[1].mode = "cursor") => QueriesExecuted \in {<<>>, <<"data">>}
    /\ (out # None /\ out[1].error = None) =>
           /\ QueriesExecuted = IF out[1].mode = "cursor" THEN <<"data">>
                                ELSE <<"count", "data">>
           /\ \A n \in 1..Len(log) : log[n].ok

\* a limit-offset call whose count query succeeded and whose data query
\* failed: the caller got the failure
C22_Witness ==
    /\ out # None /\ out[1].mode = "limit_offset" /\ out[1].error = Some("database")
    /\ log = <<[query |-> "count", ok |-> TRUE], [query |-> "data", ok |-> FALSE]>>

\* the value get_next_link and get_previous_link compare the positions of the
\* page's rows with
NextCompare ==
    IF pager.page # <<>> /\ pager.cursor # None /\ pager.cursor[1].reverse
       /\ pager.cursor[1].offset # 0
    THEN Some(_get_position_from_instance(pager.page[Len(pager.page)], ordering))
    ELSE pager.next_position

PreviousCompare ==
    IF pager.page # <<>> /\ pager.cursor # None /\ ~pager.cursor[1].reverse
       /\ pager.cursor[1].offset # 0
    THEN Some(_get_position_from_instance(pager.page[1], ordering))
    ELSE pager.previous_position

\* the page is not empty and every row of it has the position compare
WholePageTie(compare) ==
    /\ pager.page # <<>>
    /\ \A i \in 1..Len(pager.page) :
          Some(_get_position_from_instance(pager.page[i], ordering)) = compare

\* C23: when every row of a non-empty page has the compare position and the
\* opposite flag is true, the next link's cursor has the previous position
\* and the previous link's cursor the next position, with offset
\* cursor.offset + page_size when the link continues the direction of the
\* current cursor and offset 0 when it flips; every next link has
\* reverse = false and every previous link reverse = true.
C23_WholePageTie ==
    /\ (pager.has_next /\ pager.has_previous /\ WholePageTie(NextCompare)) =>
           next_link = Some(_encode_cursor(
                                Cursor(IF pager.cursor[1].reverse THEN 0
                                       ELSE pager.cursor[1].offset + page_size,
                                       FALSE, pager.previous_position)))
    /\ (pager.has_previous /\ pager.has_next /\ WholePageTie(PreviousCompare)) =>
           previous_link = Some(_encode_cursor(
                                    Cursor(IF pager.cursor[1].reverse
                                           THEN pager.cursor[1].offset + page_size
                                           ELSE 0,
                                           TRUE, pager.next_position)))
    /\ next_link # None =>
           TokensGet(parse_qs(b64decode(next_link[1]).text), <<"r">>, <<"0">>) = <<"0">>
    /\ previous_link # None =>
           TokensGet(parse_qs(b64decode(previous_link[1]).text), <<"r">>, <<"0">>) = <<"1">>

\* a page of tied rows reached through a forward cursor with an offset: its
\* next link continues the direction and its previous link flips it
C23_Witness ==
    /\ pager.has_next /\ pager.has_previous
    /\ WholePageTie(NextCompare) /\ WholePageTie(PreviousCompare)
    /\ ~pager.cursor[1].reverse
    /\ pager.cursor[1].offset > 0
    /\ next_link # None /\ previous_link # None

\* the rows of s come in the order of the paginator's ordering: no row's
\* position key is beyond the key of a row listed before it
InNaturalOrder(s) ==
    \A i \in 1..(Len(s) - 1) :
        IF ordering[1].desc THEN Key(s[i]) >= Key(s[i + 1]) ELSE Key(s[i]) <= Key(s[i + 1])

\* the rows the data query of the last request returned: page_size + 1 rows
\* at most, sorted by the reversed ordering under a reverse cursor
Fetched ==
    Scalars(table,
            IF PagedInReverse THEN _reverse_ordering(ordering) ELSE ordering,
            PositionFilter(PagedInReverse,
                           IF pager.cursor = None THEN None ELSE pager.cursor[1].position,
                           ordering),
            pager.offset, page_size + 1)

C25_CursorInfo ==
    (nreq > 0 /\ ~pager.error) =>
        /\ _extract_cursor_from_url(next_link) # None <=> pager.has_next
        /\ _extract_cursor_from_url(previous_link) # None <=> pager.has_previous
        /\ _extract_cursor_from_url(next_link) = next_link
        /\ _extract_cursor_from_url(previous_link) = previous_link

\* the paginator after the request that follows a link: paginate() for the
\* token as request.query_params gives it
Follow(link) ==
    paginate(Some(query_params_get(link[1])), table, page_size, ordering, offset_cutoff)

\* the position keys of the rows are pairwise distinct
DistinctKeys == \A a, b \in table : Key(a) = Key(b) => a = b

\* C26: with pairwise-distinct position keys and no writes, from a page
\* reached by following links that has has_next, following its next link
\* and then the previous link of the page obtained gives the rows of the
\* page in the same order; so does following the previous link and then the
\* next link from a page that has has_previous.
C26_NextPreviousIdentity ==
    (nreq > 0 /\ DistinctKeys) =>
        /\ pager.has_next =>
              /\ next_link # None
              /\ Follow(next_link).has_previous
              /\ Follow(get_previous_link(Follow(next_link), page_size, ordering)).page
                     = pager.page
        /\ pager.has_previous =>
              /\ previous_link # None
              /\ Follow(previous_link).has_next
              /\ Follow(get_next_link(Follow(previous_link), page_size, ordering)).page
                     = pager.page

\* a full page in the middle of a table with distinct keys, reached going
\* backward, with a page on either side
C26_Witness ==
    /\ nreq > 1 /\ DistinctKeys
    /\ pager.has_next /\ pager.has_previous
    /\ PagedInReverse
    /\ Len(pager.page) = 2
    /\ Follow(next_link).page # <<>>
    /\ Follow(previous_link).page # <<>>

\* C27: with pairwise-distinct position keys and no writes, on every page
\* reached by following next and previous links from a request without
\* cursor, has_next is true exactly when the table has a row after the
\* page's last row in the paginator's order, and has_previous exactly when
\* it has a row before the page's first row.
C27_TruthfulFlags ==
    (nreq > 0 /\ DistinctKeys) =>
        IF pager.page = <<>>
        THEN table = {} /\ ~pager.has_next /\ ~pager.has_previous
        ELSE /\ pager.has_next <=>
                   \E r \in table : Precedes(pager.page[Len(pager.page)], r, ordering)
             /\ pager.has_previous <=>
                   \E r \in table : Precedes(r, pager.page[1], ordering)

\* the last page of a table with distinct keys, reached going forward, and
\* the first page, reached going backward
C27_Witness ==
    /\ nreq > 2 /\ DistinctKeys
    /\ pager.page # <<>>
    /\ \/ ~PagedInReverse /\ ~pager.has_next /\ pager.has_previous
       \/ PagedInReverse /\ pager.has_next /\ ~pager.has_previous

\* C30: in every response with meta, page_count is ceil(total_count / limit),
\* 0 when total_count = 0, and whenever total_count > 0 the current_page is
\* at least 1 and at most page_count, for every clamped limit and every
\* offset >= 0, offsets at and beyond total_count included.
C30_PageMeta ==
    (phase = "answered" /\ out # None /\ out[1].meta # None) =>
        /\ out[1].meta[1].page_count * lo.limit >= lo.total_count
        /\ lo.total_count > 0 =>
              (out[1].meta[1].page_count - 1) * lo.limit < lo.total_count
        /\ lo.total_count = 0 => out[1].meta[1].page_count = 0
        /\ lo.total_count > 0 =>
              /\ 1 <= out[1].meta[1].current_page
              /\ out[1].meta[1].current_page <= out[1].meta[1].page_count

\* C30 as the code has it: page_count is ceil(total_count / limit), 0 when
\* total_count = 0; when total_count > 0 the current_page is at least 1, at
\* most page_count for an offset below total_count, and above page_count
\* exactly for the offsets at or beyond page_count * limit.
C30_PageMetaInRange ==
    (phase = "answered" /\ out # None /\ out[1].meta # None) =>
        /\ out[1].meta[1].page_count * lo.limit >= lo.total_count
        /\ lo.total_count > 0 =>
              (out[1].meta[1].page_count - 1) * lo.limit < lo.total_count
        /\ lo.total_count = 0 => out[1].meta[1].page_count = 0
        /\ lo.total_count > 0 =>
              /\ 1 <= out[1].meta[1].current_page
              /\ lo.offset < lo.total_count =>
                     out[1].meta[1].current_page <= out[1].meta[1].page_count
              /\ lo.offset >= out[1].meta[1].page_count * lo.limit <=>
                     out[1].meta[1].current_page > out[1].meta[1].page_count

\* a response with meta for an offset beyond the rows of a table that has
\* some, and more than one page
C30_Witness ==
    /\ phase = "answered" /\ out # None /\ out[1].meta # None
    /\ lo.total_count > lo.limit
    /\ lo.offset > lo.total_count
    /\ out[1].meta[1].page_count > 1

\* the rows of the responses received so far, in the order received
Received == Concat([n \in 1..Len(fwd) |-> fwd[n].data])

\* the walk has ended: the last response has no link to follow
WalkEnded == phase # "start" /\ ~RequestDue

\* walking forward from offset 0, the rows received are the first rows of the
\* query's order, each once, after no more than ceil(total_count / limit)
\* requests (one request when no row matches), and all rows when the walk
\* has ended
ForwardWalk ==
    phase = "forward" =>
        /\ Received = SubSeq(SortRows(table, ordering), 1, Len(Received))
        /\ nreq * lo.limit < Max(1, lo.total_count) + lo.limit
        /\ out[1].next = None => Len(Received) = Cardinality(table)

\* C28 as stated: with no writes, following the next links from offset 0
\* returns every row exactly once in query order within
\* ceil(total_count / limit) requests, and following the previous links from
\* any offset reaches a response with no previous link, at offset 0.
C28_Traversal ==
    /\ []ForwardWalk
    /\ [](phase = "backward" /\ out[1].previous = None => lo.offset = 0)
    /\ <>WalkEnded

\* C28 as the code has it: the same, where the response without previous
\* link that ends the walk backward is at offset 0 when rows match, and is
\* the first response, at the offset requested, when no row matches.
C28_TraversalEnds ==
    /\ []ForwardWalk
    /\ [](phase = "backward" /\ out[1].previous = None =>
             \/ lo.offset = 0
             \/ lo.total_count = 0 /\ nreq = 1)
    /\ <>WalkEnded

\* a walk forward of three requests that has returned every row, and a walk
\* backward of three requests that has reached offset 0
C28_Witness ==
    /\ nreq = 3 /\ WalkEnded
    /\ lo.total_count > 0
    /\ phase = "forward" => Len(Received) = Cardinality(table)
    /\ phase = "backward" => lo.offset = 0

\* the rows of the query in its order
AllRows == SortRows(table, ordering)

\* pages one and two are disjoint, and page one ends immediately before the
\* first row of page two
EndsBefore(one, two) ==
    /\ Range(one.data) \cap Range(two.data) = {}
    /\ two.data # <<>> =>
          one.data \o two.data =
              SubSeq(AllRows, one.offset + 1, one.offset + Len(one.data) + Len(two.data))

\* C29 as stated: with no writes, the page reached through the previous link
\* of a response is disjoint from the page of that response and ends
\* immediately before its first row, at every offset > 0.
C29_PreviousDisjoint ==
    phase = "backward" =>
        \A n \in 1..(Len(fwd) - 1) : EndsBefore(fwd[n + 1], fwd[n])

\* C29 as the code has it: the previous page starts at
\* max(0, offset - limit); it is disjoint from the current page and ends
\* immediately before its first row when offset >= limit, and when
\* 0 < offset < limit it is the page at offset 0, which shares with the
\* current page the rows offset + 1 .. limit of the query's order.
C29_PreviousPage ==
    phase = "backward" =>
        \A n \in 1..(Len(fwd) - 1) :
            /\ fwd[n + 1].offset = Max(0, fwd[n].offset - lo.limit)
            /\ fwd[n + 1].data =
                  SubSeq(AllRows, fwd[n + 1].offset + 1,
                         Min(fwd[n + 1].offset + lo.limit, Len(AllRows)))
            /\ fwd[n].offset >= lo.limit => EndsBefore(fwd[n + 1], fwd[n])
            /\ fwd[n].offset < lo.limit =>
                  /\ fwd[n + 1].offset = 0
                  /\ Range(fwd[n + 1].data) \cap Range(fwd[n].data) =
                        Range(SubSeq(AllRows, fwd[n].offset + 1,
                                     Min(lo.limit, Len(AllRows))))

\* a walk backward from offset 3 with limit 2: the page at offset 1 ends
\* before the page at offset 3, and the page at offset 0 overlaps it
C29_Witness ==
    /\ phase = "backward" /\ Len(fwd) = 3
    /\ lo.limit = 2
    /\ fwd[1].offset = 3 /\ fwd[2].offset = 1 /\ fwd[3].offset = 0
    /\ fwd[1].data # <<>>
    /\ Range(fwd[3].data) \cap Range(fwd[2].data) # {}

====
